---- MODULE Spec2Model ----
(***************************************************************************)
(* Model of the war / siege / occupation state machine (src/war.rs) and of  *)
(* the movement and battle engine (src/army.rs) of EU6.                     *)
(*                                                                         *)
(* The program is a Bevy ECS application.  A system (handler) reads and     *)
(* writes components and resources directly, but every structural change   *)
(* (spawn, despawn, insert or remove of a component) goes through the       *)
(* Commands buffer of the system and takes effect only when the system has  *)
(* returned.  Each action below is one run of one system: the loop over its *)
(* messages or entities on the state the system sees, followed by the       *)
(* application of its command buffer.                                       *)
(***************************************************************************)
EXTENDS Integers, Sequences, FiniteSets, TLC

(***************************************************************************)
(* Bounds of the model.                                                     *)
(***************************************************************************)
MaxWars == 2        \* War entities alive or still referenced
MaxPanelWars == 1   \* the same, where wars are declared from the diplomacy panel
MaxOffers == 1      \* PeaceOffer entities alive or still referenced
MaxBatch == 2       \* messages one run of a message handler reads
MaxQueue == 1       \* unread AcceptPeaceEvent messages
MaxBattles == 2     \* Battle entities alive or still referenced
MaxUnits == 2       \* units of a kind in an army that takes damage
MaxDamage == 45     \* damage handed to an army in a round
PathProvs == 6      \* provinces of the map the paths are searched on
MaxSaveWars == 2    \* wars in a save file
MaxTruceWars == 1   \* the same, where offers are made and answered as well
MaxCoord == 2       \* largest axial coordinate of a hex whose distance is taken
AiProvs == 11       \* provinces of the world the AI decides offers in

Countries == {"c1", "c2", "c3"}
NoEntity == "none"  \* Option::None of an Entity

WarIds == 1..MaxWars
OfferIds == 1..MaxOffers

VARIABLES
    at_war_with,         \* [Countries -> SUBSET Countries]: WarRelations.at_war_with
    has_relations,       \* countries that carry a WarRelations component
    war,                 \* live War entities: id -> [attacker, defender]
    active_wars,         \* Wars.active_wars: sequence of War entity ids
    offer,               \* live PeaceOffer entities: id -> [from, to, war_entity, provinces_to_cede]
    accept_peace_events, \* unread AcceptPeaceEvent messages
    player,              \* Player.country
    owner,               \* province -> owning country, NoEntity when it has no Owner
    occupied,            \* province -> Occupied.occupier, NoEntity when not occupied
    siege,               \* province -> SiegeProgress record, NoSiege when not besieged
    terrain,             \* province -> Province.terrain
    army,                \* live Army entities: id -> [owner, pos, infantry, cavalry, artillery,
                         \*   path (ActivePath.path, <<>> without the component),
                         \*   in_battle (InBattle.battle_entity, 0 without the component)]
    army_hex_map,        \* ArmyHexMap.tiles: hex -> Army entity id
    battle,              \* live Battle entities: id -> Battle record
    last                 \* what the last system run did (history, read by the properties only)

warVars == <<at_war_with, has_relations, war, active_wars>>
offerVars == <<offer, accept_peace_events>>
provVars == <<owner, occupied, siege>>
armyVars == <<army, army_hex_map, battle>>
vars == <<at_war_with, has_relations, war, active_wars, offer, accept_peace_events,
          player, owner, occupied, siege, terrain, army, army_hex_map, battle, last>>

NoSiege == [besieger_country |-> NoEntity, progress |-> 0]
SIEGE_TURNS_REQUIRED == 3

Provs == DOMAIN owner

(***************************************************************************)
(* Sequence helpers.                                                        *)
(***************************************************************************)
Range(s) == {s[i] : i \in DOMAIN s}

RECURSIVE SetToSeq(_)
SetToSeq(S) ==
    IF S = {} THEN <<>>
    ELSE LET x == CHOOSE y \in S : \A z \in S : y <= z
         IN <<x>> \o SetToSeq(S \ {x})

Min(S) == CHOOSE x \in S : \A y \in S : x <= y

(***************************************************************************)
(* Entity allocation.  Bevy never hands out an Entity that is still        *)
(* referenced under the same generation, so an id is reused only when no    *)
(* live entity, list, offer or message refers to it any more.               *)
(***************************************************************************)
WarIdsInUse ==
    DOMAIN war \cup Range(active_wars)
        \cup {offer[o].war_entity : o \in DOMAIN offer}

OfferIdsInUse == DOMAIN offer \cup Range(accept_peace_events)

(***************************************************************************)
(* src/war.rs helper functions                                              *)
(***************************************************************************)
\* WarRelations::is_at_war_with through Query::get: false when the country
\* carries no WarRelations component.
are_at_war(country1, country2) ==
    country1 \in has_relations /\ country2 \in at_war_with[country1]

\* get_war_between: first entry of active_wars that is a live War of the pair.
WarsBetween(country1, country2) ==
    {w \in DOMAIN war :
        \/ war[w].attacker = country1 /\ war[w].defender = country2
        \/ war[w].attacker = country2 /\ war[w].defender = country1}

get_war_between(country1, country2) ==
    LET idx == {i \in DOMAIN active_wars : active_wars[i] \in WarsBetween(country1, country2)}
    IN IF idx = {} THEN 0 ELSE active_wars[Min(idx)]

(***************************************************************************)
(* WAR DECLARATION (src/war.rs, handle_declare_war)                         *)
(*                                                                         *)
(* The loop state st carries what the system sees and has changed so far:   *)
(*   rel    the at_war_with sets, mutated in place through Query::get_mut   *)
(*   active Wars.active_wars, mutated in place                              *)
(*   cmds   the command buffer, applied after the loop                      *)
(*   ids    War entities reserved by commands.spawn in this run             *)
(* The WarRelations components present are those of the state before the    *)
(* run (has_relations): an insert queued in this run is not visible to it.  *)
(***************************************************************************)
validate_war_declaration(event, st) ==
    IF event.attacker = event.defender THEN FALSE
    ELSE IF event.attacker \in has_relations /\ event.defender \in st.rel[event.attacker]
         THEN FALSE
         ELSE TRUE

add_war_relation(st, country, enemy) ==
    IF country \in has_relations
    THEN [st EXCEPT !.rel[country] = @ \cup {enemy}]
    ELSE [st EXCEPT !.cmds = Append(@, [op |-> "insert_relations", country |-> country,
                                        at_war_with |-> {enemy}])]

update_war_relations(st, event) ==
    add_war_relation(add_war_relation(st, event.attacker, event.defender),
                     event.defender, event.attacker)

\* create_war: commands.spawn(War {..}).id() reserves the entity at once.
create_war(st, event) ==
    LET id == Min(WarIds \ (WarIdsInUse \cup st.ids))
    IN [st EXCEPT !.ids = @ \cup {id},
                  !.cmds = Append(@, [op |-> "spawn_war", id |-> id,
                                      attacker |-> event.attacker,
                                      defender |-> event.defender]),
                  !.active = Append(@, id)]

RECURSIVE declare_war_loop(_, _)
declare_war_loop(events, st) ==
    IF events = <<>> THEN st
    ELSE LET event == Head(events)
         IN IF ~validate_war_declaration(event, st)
            THEN declare_war_loop(Tail(events), st)
            ELSE declare_war_loop(Tail(events),
                                  update_war_relations(create_war(st, event), event))

(***************************************************************************)
(* Application of a command buffer to the world w, a record of the          *)
(* component tables.  insert replaces a component that is already there;    *)
(* a command on a despawned entity is dropped.                              *)
(***************************************************************************)
apply_command(w, c) ==
    CASE c.op = "spawn_war" ->
            [w EXCEPT !.war = [x \in DOMAIN w.war \cup {c.id} |->
                                 IF x = c.id THEN [attacker |-> c.attacker, defender |-> c.defender]
                                 ELSE w.war[x]]]
      [] c.op = "insert_relations" ->
            [w EXCEPT !.has = @ \cup {c.country}, !.rel[c.country] = c.at_war_with]
      [] c.op = "despawn_war" ->
            [w EXCEPT !.war = [x \in DOMAIN w.war \ {c.id} |-> w.war[x]]]
      [] c.op = "spawn_offer" ->
            [w EXCEPT !.offer = [x \in DOMAIN w.offer \cup {c.id} |->
                                   IF x = c.id THEN c.offer ELSE w.offer[x]]]
      [] c.op = "despawn_offer" ->
            [w EXCEPT !.offer = [x \in DOMAIN w.offer \ {c.id} |-> w.offer[x]]]
      [] c.op = "remove_occupied" ->
            IF c.province \in DOMAIN w.occupied
            THEN [w EXCEPT !.occupied[c.province] = NoEntity] ELSE w
      [] c.op = "insert_occupied" ->
            IF c.province \in DOMAIN w.occupied
            THEN [w EXCEPT !.occupied[c.province] = c.occupier] ELSE w
      [] c.op = "insert_owner" ->
            IF c.province \in DOMAIN w.owner
            THEN [w EXCEPT !.owner[c.province] = c.owner] ELSE w
      [] c.op = "remove_owner" ->
            IF c.province \in DOMAIN w.owner
            THEN [w EXCEPT !.owner[c.province] = NoEntity] ELSE w
      [] c.op = "spawn_army" ->
            [w EXCEPT !.army = [x \in DOMAIN w.army \cup {c.id} |->
                                  IF x = c.id THEN c.army ELSE w.army[x]]]
      [] c.op = "remove_siege" ->
            [w EXCEPT !.siege[c.province] = NoSiege]
      [] c.op = "insert_siege" ->
            [w EXCEPT !.siege[c.province] = c.siege]
      [] c.op = "insert_path" ->
            IF c.army \in DOMAIN w.army
            THEN [w EXCEPT !.army[c.army].path = c.path] ELSE w
      [] c.op = "remove_path" ->
            IF c.army \in DOMAIN w.army
            THEN [w EXCEPT !.army[c.army].path = <<>>] ELSE w
      [] c.op = "insert_in_battle" ->
            IF c.army \in DOMAIN w.army
            THEN [w EXCEPT !.army[c.army].in_battle = c.battle] ELSE w
      [] c.op = "remove_in_battle" ->
            IF c.army \in DOMAIN w.army
            THEN [w EXCEPT !.army[c.army].in_battle = 0] ELSE w
      [] c.op = "despawn_army" ->
            [w EXCEPT !.army = [x \in DOMAIN w.army \ {c.army} |-> w.army[x]]]
      [] c.op = "spawn_battle" ->
            [w EXCEPT !.battle = [x \in DOMAIN w.battle \cup {c.id} |->
                                    IF x = c.id THEN c.battle ELSE w.battle[x]]]
      [] c.op = "despawn_battle" ->
            [w EXCEPT !.battle = [x \in DOMAIN w.battle \ {c.id} |-> w.battle[x]]]

RECURSIVE apply_commands(_, _)
apply_commands(w, cmds) ==
    IF cmds = <<>> THEN w ELSE apply_commands(apply_command(w, Head(cmds)), Tail(cmds))

World(rel) ==
    [has |-> has_relations, rel |-> rel, war |-> war, offer |-> offer,
     owner |-> owner, occupied |-> occupied, siege |-> siege,
     army |-> army, battle |-> battle]

\* The batches of at most n messages a reader may find, drawn from the set E.
Batches(E, n) == UNION {[1..k -> E] : k \in 1..n}

DeclareWarEvents == [attacker : Countries, defender : Countries]

\* One run of handle_declare_war over the unread DeclareWarEvent messages,
\* a batch of at most n messages of the set E, with room for max_wars Wars.
DeclareWar(E, n, max_wars) ==
    \E events \in Batches(E, n) :
        /\ Cardinality(WarIdsInUse) + Len(events) <= max_wars
        /\ LET st == declare_war_loop(events,
                        [rel |-> at_war_with, active |-> active_wars, cmds |-> <<>>,
                         ids |-> {}])
               w == apply_commands(World(st.rel), st.cmds)
           IN /\ at_war_with' = w.rel
              /\ has_relations' = w.has
              /\ war' = w.war
              /\ active_wars' = st.active
              /\ last' = [op |-> "declare"]
        /\ UNCHANGED <<offerVars, provVars, player, terrain, armyVars>>

handle_declare_war == DeclareWar(DeclareWarEvents, MaxBatch, MaxWars)

\* The run that follows a click on "Declare War" (draw_peace_diplomacy): a
\* single message, the player's country against the country of the panel.
PanelDeclareWarEvents ==
    {e \in DeclareWarEvents : e.attacker = player /\ e.defender # player}

declare_war_click == DeclareWar(PanelDeclareWarEvents, 1, MaxPanelWars)

(***************************************************************************)
(* PEACE OFFERS (src/war.rs)                                                *)
(***************************************************************************)
\* The diplomacy panel offers peace for the war get_war_between finds between
\* the two countries; the provinces demanded are a set (HashSet in the panel).
PeaceOfferEvents ==
    {e \in [from : Countries, to : Countries, war_entity : DOMAIN war \cap Range(active_wars),
            provinces_to_cede : SUBSET Provs] :
        /\ e.from # e.to
        /\ {e.from, e.to} = {war[e.war_entity].attacker, war[e.war_entity].defender}}

RECURSIVE spawn_offers(_, _, _)
spawn_offers(events, taken, cmds) ==
    IF events = <<>> THEN cmds
    ELSE LET id == Min(OfferIds \ (OfferIdsInUse \cup taken))
         IN spawn_offers(Tail(events), taken \cup {id},
                         Append(cmds, [op |-> "spawn_offer", id |-> id, offer |-> Head(events)]))

\* The offers the panel writes are the player's (draw_peace_offer_section).
PanelPeaceOfferEvents == {e \in PeaceOfferEvents : e.from = player}

\* One run of handle_peace_offers over the unread PeaceOfferEvent messages,
\* a batch of at most n messages of the set E.
PeaceOffers(E, n) ==
    \E events \in Batches(E, n) :
        /\ Cardinality(OfferIdsInUse) + Len(events) <= MaxOffers
        /\ LET w == apply_commands(World(at_war_with), spawn_offers(events, {}, <<>>))
           IN offer' = w.offer
        /\ last' = [op |-> "offers"]
        /\ UNCHANGED <<warVars, accept_peace_events, provVars, player, terrain, armyVars>>

handle_peace_offers == PeaceOffers(PeaceOfferEvents, MaxBatch)

\* The run that follows a click on "Offer Peace": a single message.
peace_offer_click == PeaceOffers(PanelPeaceOfferEvents, 1)

\* count_provinces_from_recipient: demanded provinces whose Owner is the recipient.
count_provinces_from_recipient(o) ==
    Cardinality({p \in o.provinces_to_cede : p \in Provs /\ owner[p] = o.to})

\* evaluate_peace_offer with the ratio test loss_ratio <= 0.3.
evaluate_peace_offer_inclusive(o) ==
    LET provinces_demanded == Cardinality(o.provinces_to_cede)
        provinces_from_recipient ==
            Cardinality({p \in o.provinces_to_cede : p \in Provs /\ owner[p] = o.to})
        total_ai_provinces == Cardinality({p \in Provs : owner[p] = o.to})
    IN IF provinces_demanded = 0 THEN TRUE
       ELSE IF provinces_from_recipient <= 2 THEN TRUE
       ELSE IF total_ai_provinces > 0
            THEN 10 * provinces_from_recipient <= 3 * total_ai_provinces
            ELSE FALSE

\* loss_ratio < 0.3 on f32: the quotient of two small integers rounds to a
\* float below the float 0.3 exactly when 10 * from_recipient < 3 * total.
evaluate_peace_offer(o) ==
    LET provinces_demanded == Cardinality(o.provinces_to_cede)
        provinces_from_recipient == count_provinces_from_recipient(o)
        total_ai_provinces == Cardinality({p \in Provs : owner[p] = o.to})
    IN IF provinces_demanded = 0 THEN TRUE
       ELSE IF provinces_from_recipient <= 2 THEN TRUE
       ELSE IF total_ai_provinces > 0
            THEN 10 * provinces_from_recipient < 3 * total_ai_provinces
            ELSE FALSE

\* The orders in which a query may yield the entities of S.
Orders(S) == {s \in [1..Cardinality(S) -> S] : \A i, j \in DOMAIN s : i # j => s[i] # s[j]}

RECURSIVE ai_peace_loop(_, _)
ai_peace_loop(ids, st) ==
    IF ids = <<>> THEN st
    ELSE LET o == Head(ids)
         IN IF evaluate_peace_offer(offer[o])
            THEN ai_peace_loop(Tail(ids), [st EXCEPT !.events = Append(@, o),
                                                    !.accepted = @ \cup {o}])
            ELSE ai_peace_loop(Tail(ids),
                    [st EXCEPT !.cmds = Append(@, [op |-> "despawn_offer", id |-> o]),
                               !.rejected = @ \cup {o}])

ai_handle_peace_offers ==
    \E ids \in Orders({o \in DOMAIN offer : offer[o].to # player}) :
        /\ DOMAIN offer # {}
        /\ LET st == ai_peace_loop(ids, [events |-> accept_peace_events, cmds |-> <<>>,
                                         accepted |-> {}, rejected |-> {}])
               w == apply_commands(World(at_war_with), st.cmds)
           IN /\ Len(st.events) <= MaxQueue
              /\ accept_peace_events' = st.events
              /\ offer' = w.offer
              /\ last' = [op |-> "ai", accepted |-> st.accepted, rejected |-> st.rejected]
        /\ UNCHANGED <<warVars, provVars, player, terrain, armyVars>>

\* display_peace_offers_panel: the player's buttons on an offer addressed to
\* the player's country.
player_accept ==
    \E o \in DOMAIN offer :
        /\ player # NoEntity /\ offer[o].to = player
        /\ Len(accept_peace_events) < MaxQueue
        /\ accept_peace_events' = Append(accept_peace_events, o)
        /\ last' = [op |-> "panel", accepted |-> {o}, rejected |-> {}]
        /\ UNCHANGED <<warVars, offer, provVars, player, terrain, armyVars>>

player_decline ==
    \E o \in DOMAIN offer :
        /\ player # NoEntity /\ offer[o].to = player
        /\ offer' = [x \in DOMAIN offer \ {o} |-> offer[x]]
        /\ last' = [op |-> "panel", accepted |-> {}, rejected |-> {o}]
        /\ UNCHANGED <<warVars, accept_peace_events, provVars, player, terrain, armyVars>>

(***************************************************************************)
(* ACCEPT PEACE (src/war.rs, handle_accept_peace)                           *)
(*                                                                         *)
(* The PeaceOffer, War and Occupied queries show the state before the run:  *)
(* the despawns and removes queued for an earlier message of the same run   *)
(* are not applied yet.                                                     *)
(***************************************************************************)
transfer_provinces(st, peace_offer) ==
    LET ps == SetToSeq(peace_offer.provinces_to_cede)
        cmdsOf[i \in 0..Len(ps)] ==
            IF i = 0 THEN <<>>
            ELSE cmdsOf[i - 1] \o <<[op |-> "remove_occupied", province |-> ps[i]],
                                     [op |-> "insert_owner", province |-> ps[i],
                                      owner |-> peace_offer.from]>>
    IN [st EXCEPT !.cmds = @ \o cmdsOf[Len(ps)]]

\* clear_occupations that forgets the defender's markers.
clear_occupations_attacker_only(st, w) ==
    LET ps == SetToSeq({p \in Provs : occupied[p] # NoEntity /\ occupied[p] = w.attacker})
        cmdsOf[i \in 0..Len(ps)] ==
            IF i = 0 THEN <<>>
            ELSE Append(cmdsOf[i - 1], [op |-> "remove_occupied", province |-> ps[i]])
    IN [st EXCEPT !.cmds = @ \o cmdsOf[Len(ps)]]

clear_occupations(st, w) ==
    LET ps == SetToSeq({p \in Provs : occupied[p] # NoEntity
                                       /\ occupied[p] \in {w.attacker, w.defender}})
        cmdsOf[i \in 0..Len(ps)] ==
            IF i = 0 THEN <<>>
            ELSE Append(cmdsOf[i - 1], [op |-> "remove_occupied", province |-> ps[i]])
    IN [st EXCEPT !.cmds = @ \o cmdsOf[Len(ps)]]

remove_war_relations(st, w) ==
    LET r1 == IF w.attacker \in has_relations
              THEN [st.rel EXCEPT ![w.attacker] = @ \ {w.defender}] ELSE st.rel
        r2 == IF w.defender \in has_relations
              THEN [r1 EXCEPT ![w.defender] = @ \ {w.attacker}] ELSE r1
    IN [st EXCEPT !.rel = r2]

execute_peace_terms(st, peace_offer, w) ==
    remove_war_relations(clear_occupations(transfer_provinces(st, peace_offer), w), w)

cleanup_peace_entities(st, war_entity, offer_entity) ==
    [st EXCEPT !.active = SelectSeq(@, LAMBDA e : e # war_entity),
               !.cmds = @ \o <<[op |-> "despawn_war", id |-> war_entity],
                                [op |-> "despawn_offer", id |-> offer_entity]>>]

\* An acceptance that leaves the offer of a vanished war in place.
process_peace_acceptance_keeps_offer(st, offer_entity) ==
    IF offer_entity \notin DOMAIN offer
    THEN [st EXCEPT !.log = Append(@, [offer_entity |-> offer_entity, result |-> "no_offer"])]
    ELSE LET peace_offer == offer[offer_entity]
         IN IF peace_offer.war_entity \notin DOMAIN war
            THEN [st EXCEPT !.log = Append(@, [offer_entity |-> offer_entity,
                                               result |-> "no_war"])]
            ELSE LET w == war[peace_offer.war_entity]
                     done == cleanup_peace_entities(execute_peace_terms(st, peace_offer, w),
                                                    peace_offer.war_entity, offer_entity)
                 IN [done EXCEPT !.log = Append(@, [offer_entity |-> offer_entity,
                                                    result |-> "accepted"])]

process_peace_acceptance(st, offer_entity) ==
    IF offer_entity \notin DOMAIN offer
    THEN [st EXCEPT !.log = Append(@, [offer_entity |-> offer_entity, result |-> "no_offer"])]
    ELSE LET peace_offer == offer[offer_entity]
         IN IF peace_offer.war_entity \notin DOMAIN war
            THEN [st EXCEPT !.cmds = Append(@, [op |-> "despawn_offer", id |-> offer_entity]),
                            !.log = Append(@, [offer_entity |-> offer_entity,
                                               result |-> "no_war"])]
            ELSE LET w == war[peace_offer.war_entity]
                     done == cleanup_peace_entities(execute_peace_terms(st, peace_offer, w),
                                                    peace_offer.war_entity, offer_entity)
                 IN [done EXCEPT !.log = Append(@, [offer_entity |-> offer_entity,
                                                    result |-> "accepted"])]

RECURSIVE accept_peace_loop(_, _)
accept_peace_loop(events, st) ==
    IF events = <<>> THEN st
    ELSE accept_peace_loop(Tail(events), process_peace_acceptance(st, Head(events)))

handle_accept_peace ==
    /\ accept_peace_events # <<>>
    /\ LET st == accept_peace_loop(accept_peace_events,
                    [rel |-> at_war_with, active |-> active_wars, cmds |-> <<>>, log |-> <<>>])
           w == apply_commands(World(st.rel), st.cmds)
       IN /\ at_war_with' = w.rel
          /\ has_relations' = w.has
          /\ war' = w.war
          /\ active_wars' = st.active
          /\ offer' = w.offer
          /\ owner' = w.owner
          /\ occupied' = w.occupied
          /\ siege' = w.siege
          /\ last' = [op |-> "accept", log |-> st.log]
    /\ accept_peace_events' = <<>>
    /\ UNCHANGED <<player, terrain, armyVars>>

(***************************************************************************)
(* OCCUPATION PRIMITIVE (src/war.rs, occupy_province), as the battle engine *)
(* calls it for the winning attacker country: on an ownable province with   *)
(* an owner other than that country.                                        *)
(***************************************************************************)
occupy_province(w, province_entity, occupier) ==
    apply_commands(w, <<[op |-> "insert_occupied", province |-> province_entity,
                         occupier |-> occupier]>>)

OccupyProvince ==
    \E p \in Provs, c \in Countries :
        /\ owner[p] # NoEntity /\ owner[p] # c
        /\ occupied[p] # c
        /\ occupied' = occupy_province(World(at_war_with), p, c).occupied
        /\ last' = [op |-> "occupy"]
        /\ UNCHANGED <<warVars, offerVars, owner, siege, player, terrain, armyVars>>

(***************************************************************************)
(* HEX GRID (src/hex.rs) AND MAP (src/map.rs)                               *)
(*                                                                         *)
(* A hex is a pair <<q, r>> of axial coordinates.  The provinces of the     *)
(* model lie in rows of two: province 1 is the hex <<0, 0>>, 2 is <<1, 0>>, *)
(* 3 is <<0, 1>>, 4 is <<1, 1>>, so that 2 and 3 are neighbours of each     *)
(* other and of 1 and 4.                                                    *)
(***************************************************************************)
NEIGHBOR_DIR == <<<<1, -1>>, <<1, 0>>, <<0, 1>>, <<-1, 1>>, <<-1, 0>>, <<0, -1>>>>

neighbor(hex, direction) ==
    <<hex[1] + NEIGHBOR_DIR[direction][1], hex[2] + NEIGHBOR_DIR[direction][2]>>

\* A conversion that loses the second cube coordinate.
to_cube_without_y(hex) == <<hex[1], 0, hex[2]>>

\* Hex::to_cube: <<x, y, z>> of the axial <<q, r>>.
to_cube(hex) == <<hex[1], -hex[1] - hex[2], hex[2]>>

\* i32::abs.
abs(n) == IF n < 0 THEN -n ELSE n

\* Hex::distance; the sum is never negative, so that / rounds as \div does.
distance(hex, other) ==
    LET c1 == to_cube(hex)
        c2 == to_cube(other)
    IN (abs(c1[1] - c2[1]) + abs(c1[2] - c2[2]) + abs(c1[3] - c2[3])) \div 2

HexOf(p) == <<(p - 1) % 2, (p - 1) \div 2>>

Hexes == {HexOf(p) : p \in Provs}

\* ProvinceHexMap::get_entity: the province of a hex, 0 for None.
get_entity(hex) ==
    IF \E p \in Provs : HexOf(p) = hex THEN CHOOSE p \in Provs : HexOf(p) = hex ELSE 0

is_ownable(t) == t \notin {"Sea", "Wasteland"}
is_passable(t) == t \notin {"Sea", "Wasteland"}

\* Terrain::defender_bonus in hundredths, cavalry_modifier and
\* artillery_modifier in tenths.
defender_bonus(t) ==
    CASE t = "Plains" -> 100 [] t = "Hills" -> 125 [] t = "Mountains" -> 150
      [] t = "Forest" -> 120 [] t = "Desert" -> 90 [] OTHER -> 100

cavalry_modifier(t) ==
    CASE t = "Plains" -> 12 [] t = "Hills" -> 8 [] t = "Mountains" -> 5
      [] t = "Forest" -> 6 [] t = "Desert" -> 11 [] t = "Wasteland" -> 9 [] OTHER -> 0

artillery_modifier(t) ==
    CASE t = "Plains" -> 10 [] t = "Hills" -> 12 [] t = "Mountains" -> 7
      [] t = "Forest" -> 6 [] t = "Desert" -> 11 [] t = "Wasteland" -> 9 [] OTHER -> 0

(***************************************************************************)
(* ARMY INDEX (src/army.rs, ArmyHexMap)                                     *)
(***************************************************************************)
MapRemove(m, pos) == [h \in DOMAIN m \ {pos} |-> m[h]]

MapInsert(m, pos, a) == [h \in DOMAIN m \cup {pos} |-> IF h = pos THEN a ELSE m[h]]

\* tiles.iter().find_map(..): the hexes whose entry is the army.
KeysOf(m, a) == {h \in DOMAIN m : m[h] = a}

total_size(comp) == comp.infantry + comp.cavalry + comp.artillery

(***************************************************************************)
(* MOVE ORDERS (src/army.rs, army_movement_system)                          *)
(***************************************************************************)
\* The neighbours, in direction order, that are hexes of a province.
passable_neighbors_any_terrain(hex) ==
    SelectSeq([d \in 1..6 |-> neighbor(hex, d)], LAMBDA n : get_entity(n) # 0)

\* The successors closure of the search: the neighbours, in direction order,
\* that are hexes of a passable province.
passable_neighbors(hex) ==
    SelectSeq([d \in 1..6 |-> neighbor(hex, d)],
              LAMBDA n : get_entity(n) # 0 /\ is_passable(terrain[get_entity(n)]))

\* pathfinding::bfs: seen lists the hexes in the order they were first
\* reached, parent[k] is the index in seen of the hex seen[k] was reached
\* from (0 for the start); the hexes are expanded in that order and the
\* search returns as soon as a successor is the goal.  <<>> stands for None.
RECURSIVE reverse_path(_, _, _)
reverse_path(seen, parent, i) ==
    IF i = 0 THEN <<>> ELSE Append(reverse_path(seen, parent, parent[i]), seen[i])

RECURSIVE bfs_expand(_, _, _, _, _)
RECURSIVE bfs_loop(_, _, _, _)
bfs_expand(seen, parent, i, goal, succs) ==
    IF succs = <<>> THEN bfs_loop(seen, parent, i + 1, goal)
    ELSE LET n == Head(succs)
         IN IF n = goal THEN Append(reverse_path(seen, parent, i), n)
            ELSE IF n \in Range(seen)
                 THEN bfs_expand(seen, parent, i, goal, Tail(succs))
                 ELSE bfs_expand(Append(seen, n), Append(parent, i), i, goal, Tail(succs))

bfs_loop(seen, parent, i, goal) ==
    IF i > Len(seen) THEN <<>>
    ELSE bfs_expand(seen, parent, i, goal, passable_neighbors(seen[i]))

\* A search from the goal back to the start.
bfs_from_goal(start, goal) ==
    IF start = goal THEN <<start>> ELSE bfs_loop(<<goal>>, <<0>>, 1, start)

bfs(start, goal) ==
    IF start = goal THEN <<start>> ELSE bfs_loop(<<start>>, <<0>>, 1, goal)

\* The messages handle_province_click writes: the selected army, which
\* handle_army_click lets be an army of the player's country only, and the
\* hex of a passable province.
MoveArmyEvents ==
    [army : {a \in DOMAIN army : army[a].owner = player},
     to : {h \in Hexes : is_passable(terrain[get_entity(h)])}]

\* The handling of one MoveArmyEvent.  The position the search starts from
\* is the hex the index lists the army at.
move_army_event(event) ==
    /\ \/ /\ KeysOf(army_hex_map, event.army) = {}
          /\ UNCHANGED army
       \/ \E from_pos \in KeysOf(army_hex_map, event.army) :
            IF from_pos = event.to THEN UNCHANGED army
            ELSE LET path == bfs(from_pos, event.to)
                     deck == IF path = <<>> THEN <<>> ELSE Tail(path)
                 IN IF deck = <<>> THEN UNCHANGED army
                    ELSE army' = apply_commands(World(at_war_with),
                                    <<[op |-> "insert_path", army |-> event.army,
                                       path |-> deck]>>).army
    /\ last' = [op |-> "order"]
    /\ UNCHANGED <<warVars, offerVars, provVars, player, terrain, army_hex_map, battle>>

\* One run of army_movement_system over one MoveArmyEvent.
army_movement_system == \E event \in MoveArmyEvents : move_army_event(event)

(***************************************************************************)
(* MOVEMENT STEP (src/army.rs, move_active_armies)                          *)
(*                                                                         *)
(* order is the order in which the army query yields the armies.  The loop  *)
(* state st carries what the pass has changed in place (army: positions,    *)
(* compositions and path contents; map: the index; battle: the lists of the *)
(* battles joined), its command buffer cmds, the Battle entities it has     *)
(* reserved (ids) and its log.  Which armies exist and which carry an       *)
(* ActivePath or InBattle component, and which Battle entities exist, is    *)
(* read from the state before the pass: removals, inserts, spawns and       *)
(* despawns of this pass are still in the command buffer.                   *)
(***************************************************************************)
BattleIds == 1..MaxBattles

BattleIdsInUse ==
    DOMAIN battle \cup ({army[a].in_battle : a \in DOMAIN army} \ {0})

\* The battle of the first army in query order whose InBattle names a live
\* battle at the hex; 0 for None.
battle_at_location(order, next_hex) ==
    LET found == SelectSeq(order, LAMBDA a :
                    /\ army[a].in_battle # 0
                    /\ army[a].in_battle \in DOMAIN battle
                    /\ battle[army[a].in_battle].location = next_hex)
    IN IF found = <<>> THEN 0 ELSE army[Head(found)].in_battle

join_side(owner_entity, b) ==
    IF owner_entity = b.attacker_country THEN "Attacker"
    ELSE IF owner_entity = b.defender_country THEN "Defender"
    ELSE IF are_at_war(owner_entity, b.defender_country) THEN "Attacker"
    ELSE IF are_at_war(owner_entity, b.attacker_country) THEN "Defender"
    ELSE "None"

composition(a) == [infantry |-> a.infantry, cavalry |-> a.cavalry, artillery |-> a.artillery]

join_battle(st, entity, battle_entity, side, next_hex) ==
    [st EXCEPT
              !.battle[battle_entity].attackers =
                  IF side = "Attacker" THEN Append(@, entity) ELSE @,
              !.battle[battle_entity].defenders =
                  IF side = "Defender" THEN Append(@, entity) ELSE @,
              !.cmds = @ \o <<[op |-> "remove_path", army |-> entity],
                               [op |-> "insert_in_battle", army |-> entity,
                                battle |-> battle_entity]>>,
              !.map = MapRemove(@, st.army[entity].pos),
              !.army[entity].pos = next_hex]

\* A merge that adds the regiments of foot only.
add_infantry_only(comp, other) ==
    [comp EXCEPT !.infantry = @ + other.infantry]

\* ArmyComposition::add.
add(comp, other) ==
    [comp EXCEPT !.infantry = @ + other.infantry,
                 !.cavalry = @ + other.cavalry,
                 !.artillery = @ + other.artillery]

merge_armies(st, e1, e2) ==
    LET old_pos == st.army[e1].pos
        merged == [st EXCEPT
                     !.army[e2] = add(@, st.army[e1]),
                     !.map = MapRemove(@, old_pos),
                     !.cmds = Append(@, [op |-> "despawn_army", army |-> e1])]
    IN [merged EXCEPT !.log = Append(@,
            [army |-> e1, occupant |-> e2,
             mover_before |-> composition(st.army[e1]),
             occupant_before |-> composition(st.army[e2]),
             occupant_after |-> composition(merged.army[e2]),
             despawned |-> {c.army : c \in {d \in Range(merged.cmds) : d.op = "despawn_army"}},
             former_hex_listed |-> old_pos \in DOMAIN merged.map])]

\* A halt that leaves the path on the army.
halt_movement_keeps_path(st, e1) == st

halt_movement(st, e1) ==
    [st EXCEPT !.cmds = Append(@, [op |-> "remove_path", army |-> e1])]

start_battle(st, e1, e2, next_hex) ==
    LET free == BattleIds \ (BattleIdsInUse \cup st.ids)
        battle_id == IF free = {} THEN 0 ELSE Min(free)
    IN [st EXCEPT
                 !.ids = @ \cup {battle_id},
                 !.cmds = @ \o
                    <<[op |-> "remove_path", army |-> e1],
                      [op |-> "spawn_battle", id |-> battle_id,
                       battle |-> [attackers |-> <<e1>>, defenders |-> <<e2>>,
                                   attacker_country |-> st.army[e1].owner,
                                   defender_country |-> st.army[e2].owner,
                                   location |-> next_hex, round |-> 0,
                                   last_damage_attacker |-> 0,
                                   last_damage_defender |-> 0]],
                      [op |-> "insert_in_battle", army |-> e1, battle |-> battle_id],
                      [op |-> "insert_in_battle", army |-> e2, battle |-> battle_id]>>]

advance_army(st, entity, next_hex) ==
    LET rest == Tail(st.army[entity].path)
        moved == [st EXCEPT !.army[entity].path = rest,
                            !.map = MapInsert(MapRemove(@, st.army[entity].pos),
                                              next_hex, entity),
                            !.army[entity].pos = next_hex]
    IN IF rest = <<>>
       THEN [moved EXCEPT !.cmds = Append(@, [op |-> "remove_path", army |-> entity])]
       ELSE moved

move_army(st, order, entity) ==
    IF st.army[entity].path = <<>>
    THEN [st EXCEPT !.cmds = Append(@, [op |-> "remove_path", army |-> entity])]
    ELSE LET next_hex == Head(st.army[entity].path)
             battle_entity == battle_at_location(order, next_hex)
             side == IF battle_entity = 0 THEN "None"
                     ELSE join_side(st.army[entity].owner, st.battle[battle_entity])
         IN IF side # "None"
            THEN join_battle(st, entity, battle_entity, side, next_hex)
            ELSE IF next_hex \notin DOMAIN st.map
                 THEN advance_army(st, entity, next_hex)
                 ELSE LET occupant_entity == st.map[next_hex]
                      IN IF occupant_entity \notin DOMAIN army
                         THEN advance_army([st EXCEPT !.map = MapRemove(@, next_hex)],
                                           entity, next_hex)
                         ELSE IF occupant_entity = entity
                              THEN st
                         ELSE IF st.army[entity].owner = st.army[occupant_entity].owner
                              THEN merge_armies(st, entity, occupant_entity)
                         ELSE IF ~are_at_war(st.army[entity].owner,
                                             st.army[occupant_entity].owner)
                              THEN halt_movement(st, entity)
                         ELSE start_battle(st, entity, occupant_entity, next_hex)

\* What one iteration of the loop did: the armies, the index and the battles
\* as the iteration found and left them, and the commands it queued.
step_record(st, nxt, entity) ==
    [army |-> entity,
     before |-> [army |-> st.army, map |-> st.map, battle |-> st.battle],
     after |-> [army |-> nxt.army, map |-> nxt.map, battle |-> nxt.battle],
     cmds |-> SubSeq(nxt.cmds, Len(st.cmds) + 1, Len(nxt.cmds))]

RECURSIVE move_loop(_, _, _)
move_loop(movers, order, st) ==
    IF movers = <<>> THEN st
    ELSE LET nxt == move_army(st, order, Head(movers))
         IN move_loop(Tail(movers), order,
                      [nxt EXCEPT !.steps = Append(@, step_record(st, nxt, Head(movers)))])

move_active_armies ==
    \E order \in Orders(DOMAIN army) :
        LET movers == SelectSeq(order, LAMBDA a : army[a].path # <<>>)
            st == move_loop(movers, order,
                            [army |-> army, map |-> army_hex_map, battle |-> battle,
                             cmds |-> <<>>, ids |-> {}, log |-> <<>>, steps |-> <<>>])
            w == apply_commands([World(at_war_with) EXCEPT !.army = st.army,
                                                           !.battle = st.battle],
                                st.cmds)
        IN /\ movers # <<>>
           /\ 0 \notin st.ids
           /\ army' = w.army
           /\ battle' = w.battle
           /\ army_hex_map' = st.map
           /\ last' = [op |-> "move", log |-> st.log, steps |-> st.steps]
           /\ UNCHANGED <<warVars, offerVars, provVars, player, terrain>>

(***************************************************************************)
(* BATTLES (src/army.rs, resolve_battles)                                   *)
(*                                                                         *)
(* The damage scores are kept in tenths (0.5 per infantry, the terrain      *)
(* modifiers in tenths), a roll and the defender bonus in hundredths; the   *)
(* cast to u32 truncates.                                                   *)
(***************************************************************************)
MIN_DAMAGE == 5

\* rng.random_range(0.8..1.2): the least value and one next to the bound.
Rolls == {80, 119}

MinOf(x, y) == IF x < y THEN x ELSE y

\* The kills spread over cavalry, then infantry, then artillery.
apply_damage_cavalry_first(comp, damage) ==
    LET units_lost == damage \div 20
        total == total_size(comp)
        floored == IF units_lost = 0 /\ damage > 0
                   THEN MinOf(MinOf(damage, MIN_DAMAGE), total) ELSE units_lost
        capped == IF floored > total THEN total ELSE floored
        kill_cav == MinOf(capped, comp.cavalry)
        kill_inf == MinOf(capped - kill_cav, comp.infantry)
        kill_art == MinOf(capped - kill_cav - kill_inf, comp.artillery)
    IN [comp EXCEPT !.infantry = @ - kill_inf,
                    !.cavalry = @ - kill_cav,
                    !.artillery = @ - kill_art]

\* The composition after apply_damage_to_composition(comp, damage).
apply_damage_to_composition(comp, damage) ==
    LET units_lost == damage \div 20
        total == total_size(comp)
        floored == IF units_lost = 0 /\ damage > 0
                   THEN MinOf(MinOf(damage, MIN_DAMAGE), total) ELSE units_lost
        capped == IF floored > total THEN total ELSE floored
        remaining_to_kill == IF capped = 0 /\ total > 0 /\ damage > 0 THEN 1 ELSE capped
        kill_inf == MinOf(remaining_to_kill, comp.infantry)
        kill_cav == MinOf(remaining_to_kill - kill_inf, comp.cavalry)
        kill_art == MinOf(remaining_to_kill - kill_inf - kill_cav, comp.artillery)
    IN [comp EXCEPT !.infantry = @ - kill_inf,
                    !.cavalry = @ - kill_cav,
                    !.artillery = @ - kill_art]

\* The kills asked for, not capped by the size of the army.
actual_lost_uncapped(comp, damage) ==
    LET units_lost == damage \div 20
    IN IF units_lost = 0 /\ damage > 0 THEN MinOf(damage, MIN_DAMAGE) ELSE units_lost

\* The number apply_damage_to_composition(comp, damage) returns: the kills
\* it has settled on before it spreads them over the kinds.
actual_lost(comp, damage) ==
    LET units_lost == damage \div 20
        total == total_size(comp)
        floored == IF units_lost = 0 /\ damage > 0
                   THEN MinOf(MinOf(damage, MIN_DAMAGE), total) ELSE units_lost
        capped == IF floored > total THEN total ELSE floored
    IN IF capped = 0 /\ total > 0 /\ damage > 0 THEN 1 ELSE capped

RECURSIVE calc_side_damage(_, _, _, _)
calc_side_damage(armies, army_list, cavalry_mod, artillery_mod) ==
    IF army_list = <<>> THEN 0
    ELSE (IF Head(army_list) \in DOMAIN armies
          THEN LET comp == armies[Head(army_list)]
               IN 5 * comp.infantry + cavalry_mod * comp.cavalry
                    + 2 * artillery_mod * comp.artillery
          ELSE 0)
         + calc_side_damage(armies, Tail(army_list), cavalry_mod, artillery_mod)

\* apply_damage_to_side: the armies after every army of the list has taken
\* its share, at least 1, of the damage.
RECURSIVE damage_each(_, _, _)
damage_each(armies, army_list, damage) ==
    IF army_list = <<>> THEN armies
    ELSE damage_each(IF Head(army_list) \in DOMAIN armies
                     THEN [armies EXCEPT ![Head(army_list)] =
                               apply_damage_to_composition(@, damage)]
                     ELSE armies,
                     Tail(army_list), damage)

\* Every army of the side takes the whole damage.
damage_per_army_undivided(total_damage, len) ==
    IF total_damage < 1 THEN 1 ELSE total_damage

\* damage_per_army.max(1): the share of one army of a side of len armies.
damage_per_army(total_damage, len) ==
    LET share == total_damage \div len
    IN IF share < 1 THEN 1 ELSE share

\* The share of each army not raised to 1.
apply_damage_to_side_no_floor(armies, army_list, total_damage) ==
    IF army_list = <<>> THEN armies
    ELSE damage_each(armies, army_list, total_damage \div Len(army_list))

apply_damage_to_side(armies, army_list, total_damage) ==
    IF army_list = <<>> THEN armies
    ELSE damage_each(armies, army_list, damage_per_army(total_damage, Len(army_list)))

\* total_lost of apply_damage_to_side: the sum of the numbers that
\* apply_damage_to_composition returns for the entries of the list, each
\* taken on the composition the entries before it have left.
RECURSIVE lost_each(_, _, _)
lost_each(armies, army_list, damage) ==
    IF army_list = <<>> THEN 0
    ELSE (IF Head(army_list) \in DOMAIN armies
          THEN actual_lost(armies[Head(army_list)], damage) ELSE 0)
         + lost_each(damage_each(armies, <<Head(army_list)>>, damage),
                     Tail(army_list), damage)

total_lost(armies, army_list, total_damage) ==
    IF army_list = <<>> THEN 0
    ELSE lost_each(armies, army_list, damage_per_army(total_damage, Len(army_list)))

\* The units of the armies a list names, each army counted once.
RECURSIVE set_size(_, _)
set_size(armies, S) ==
    IF S = {} THEN 0
    ELSE LET a == CHOOSE x \in S : TRUE
         IN (IF a \in DOMAIN armies THEN total_size(armies[a]) ELSE 0)
              + set_size(armies, S \ {a})

side_size(armies, army_list) == set_size(armies, Range(army_list))

\* An index that keeps the entry of the army.
remove_from_hex_map_keeps_entry(m, army_entity) == m

\* The index without the entry found for the army, if there is one.
remove_from_hex_map(m, army_entity) ==
    IF KeysOf(m, army_entity) = {} THEN m
    ELSE MapRemove(m, CHOOSE h \in KeysOf(m, army_entity) : TRUE)

RECURSIVE remove_losers(_, _)
remove_losers(st, losers) ==
    IF losers = <<>> THEN st
    ELSE remove_losers(
            [st EXCEPT !.map = remove_from_hex_map(@, Head(losers)),
                       !.cmds = @ \o <<[op |-> "remove_in_battle", army |-> Head(losers)],
                                        [op |-> "despawn_army", army |-> Head(losers)]>>],
            Tail(losers))

RECURSIVE place_winners(_, _, _)
place_winners(st, winners, battle_location) ==
    IF winners = <<>> THEN st
    ELSE place_winners(
            IF Head(winners) \in DOMAIN st.army
            THEN [st EXCEPT !.cmds = Append(@, [op |-> "remove_in_battle",
                                                army |-> Head(winners)]),
                            !.map = MapRemove(@, st.army[Head(winners)].pos),
                            !.army[Head(winners)].pos = battle_location]
            ELSE [st EXCEPT !.cmds = Append(@, [op |-> "remove_in_battle",
                                                army |-> Head(winners)])],
            Tail(winners), battle_location)

\* The countries of the two sides taken for each other.
loser_country(b, winner_side) ==
    IF winner_side = "Attacker" THEN b.defender_country ELSE b.attacker_country

winner_country(b, winner_side) ==
    IF winner_side = "Attacker" THEN b.attacker_country ELSE b.defender_country

end_battle_multi(st, battle_entity, winner_side) ==
    LET b == st.battle[battle_entity]
        winners == IF winner_side = "Attacker" THEN b.attackers ELSE b.defenders
        losers == IF winner_side = "Attacker" THEN b.defenders ELSE b.attackers
        placed == place_winners(remove_losers(st, losers), winners, b.location)
        listed == IF winners = <<>> THEN placed
                  ELSE [placed EXCEPT !.map = MapInsert(@, b.location, Head(winners))]
        province_entity == get_entity(b.location)
        occupies == /\ winner_side = "Attacker"
                    /\ province_entity # 0
                    /\ owner[province_entity] # NoEntity
                    /\ is_ownable(terrain[province_entity])
                    /\ owner[province_entity] # winner_country(b, winner_side)
        done == IF occupies
                THEN [listed EXCEPT !.cmds = Append(@, [op |-> "insert_occupied",
                                                        province |-> province_entity,
                                                        occupier |->
                                                            winner_country(b, winner_side)])]
                ELSE listed
    IN [done EXCEPT !.cmds = Append(@, [op |-> "despawn_battle", id |-> battle_entity]),
                    !.log = Append(@, [battle |-> battle_entity,
                                       result |-> IF winner_side = "Attacker"
                                                  THEN "attackers_won" ELSE "defenders_won",
                                       location |-> b.location,
                                       attacker_country |-> b.attacker_country])]

RECURSIVE despawn_dead(_, _)
despawn_dead(st, army_list) ==
    IF army_list = <<>> THEN st
    ELSE IF Head(army_list) \in DOMAIN st.army /\ total_size(st.army[Head(army_list)]) = 0
         THEN despawn_dead([st EXCEPT !.map = remove_from_hex_map(@, Head(army_list)),
                                      !.dead = Append(@, Head(army_list))],
                           Tail(army_list))
         ELSE despawn_dead(st, Tail(army_list))

\* A round that is not fought.
battle_round_not_fought(st, battle_entity, roll) == st

battle_round(st, battle_entity, roll) ==
    LET b == st.battle[battle_entity]
        province_entity == get_entity(b.location)
        t == IF province_entity # 0 /\ owner[province_entity] # NoEntity
             THEN terrain[province_entity] ELSE "Plains"
        att_base_dmg == calc_side_damage(st.army, b.attackers, cavalry_modifier(t),
                                         artillery_modifier(t))
        def_base_dmg == calc_side_damage(st.army, b.defenders, cavalry_modifier(t),
                                         artillery_modifier(t))
        att_dmg == (att_base_dmg * roll.att) \div (10 * defender_bonus(t))
        def_dmg == (def_base_dmg * roll.def * defender_bonus(t)) \div 100000
        hit_att == apply_damage_to_side(st.army, b.attackers, def_dmg)
        hit == apply_damage_to_side(hit_att, b.defenders, att_dmg)
        fought == [st EXCEPT !.army = hit,
                             !.battle[battle_entity].last_damage_attacker =
                                 total_lost(st.army, b.attackers, def_dmg),
                             !.battle[battle_entity].last_damage_defender =
                                 total_lost(hit_att, b.defenders, att_dmg),
                             !.battle[battle_entity].round = @ + 1,
                             !.dead = <<>>]
        swept == despawn_dead(fought, b.attackers \o b.defenders)
    IN [swept EXCEPT !.cmds = @ \o [i \in 1..Len(swept.dead) |->
                                        [op |-> "despawn_army", army |-> swept.dead[i]]],
                     !.log = Append(@, [battle |-> battle_entity, result |-> "round",
                                        location |-> b.location,
                                        attacker_country |-> b.attacker_country,
                                        att_dmg |-> att_dmg, def_dmg |-> def_dmg,
                                        attackers_before |-> side_size(st.army, b.attackers),
                                        attackers_after |-> side_size(hit, b.attackers),
                                        defenders_before |-> side_size(st.army, b.defenders),
                                        defenders_after |-> side_size(hit, b.defenders)])]

\* The lists left as they are, the dead included.
retain_all(st, battle_entity) == st

\* The two retain calls: the lists keep the armies that exist with size > 0.
retain_alive(st, battle_entity) ==
    LET alive(e) == e \in DOMAIN st.army /\ total_size(st.army[e]) > 0
    IN [st EXCEPT !.battle[battle_entity].attackers = SelectSeq(@, alive),
                  !.battle[battle_entity].defenders = SelectSeq(@, alive)]

\* One iteration of the loop of resolve_battles over a battle.
resolve_battle(st, battle_entity, roll) ==
    LET kept == retain_alive(st, battle_entity)
        b == kept.battle[battle_entity]
    IN IF b.attackers = <<>> /\ b.defenders = <<>>
       THEN [kept EXCEPT !.cmds = Append(@, [op |-> "despawn_battle", id |-> battle_entity]),
                         !.log = Append(@, [battle |-> battle_entity,
                                            result |-> "mutual_destruction",
                                            location |-> b.location,
                                            attacker_country |-> b.attacker_country])]
       ELSE IF b.attackers = <<>> THEN end_battle_multi(kept, battle_entity, "Defender")
       ELSE IF b.defenders = <<>> THEN end_battle_multi(kept, battle_entity, "Attacker")
       ELSE battle_round(kept, battle_entity, roll)

RECURSIVE resolve_loop(_, _, _)
resolve_loop(order, rolls, st) ==
    IF order = <<>> THEN st
    ELSE resolve_loop(Tail(order), rolls,
                      resolve_battle(st, Head(order), rolls[Head(order)]))

\* order is the order in which the battle query yields the battles, rolls
\* the two random numbers drawn for each battle that fights a round.
resolve_battles ==
    \E order \in Orders(DOMAIN battle) :
        \E rolls \in [DOMAIN battle -> [att : Rolls, def : Rolls]] :
            LET st == resolve_loop(order, rolls,
                                   [army |-> army, map |-> army_hex_map, battle |-> battle,
                                    cmds |-> <<>>, log |-> <<>>, dead |-> <<>>])
                w == apply_commands([World(at_war_with) EXCEPT !.army = st.army,
                                                               !.battle = st.battle],
                                    st.cmds)
            IN /\ DOMAIN battle # {}
               /\ army' = w.army
               /\ battle' = w.battle
               /\ army_hex_map' = st.map
               /\ owner' = w.owner
               /\ occupied' = w.occupied
               /\ last' = [op |-> "resolve", log |-> st.log]
               /\ UNCHANGED <<warVars, offerVars, siege, player, terrain>>

(***************************************************************************)
(* SIEGES (src/war.rs, update_siege_progress)                               *)
(*                                                                         *)
(* The loop state st carries the SiegeProgress components as changed in     *)
(* place (siege), the command buffer and the log of the pass.  Which        *)
(* provinces carry a SiegeProgress or an Occupied component is read from    *)
(* the state before the pass.                                               *)
(***************************************************************************)
is_besieger_present(province_entity, siege_progress) ==
    \E a \in DOMAIN army :
        /\ get_entity(army[a].pos) = province_entity
        /\ army[a].owner = siege_progress.besieger_country

\* A siege that needs one pass more than SIEGE_TURNS_REQUIRED.
advance_siege_late(st, province_entity) ==
    LET advanced == [st EXCEPT !.siege[province_entity].progress = @ + 1]
    IN IF advanced.siege[province_entity].progress > SIEGE_TURNS_REQUIRED
       THEN [advanced EXCEPT !.cmds = @ \o
                <<[op |-> "remove_siege", province |-> province_entity],
                  [op |-> "insert_occupied", province |-> province_entity,
                   occupier |-> advanced.siege[province_entity].besieger_country]>>,
                !.log = Append(@, [province |-> province_entity, event |-> "occupied"])]
       ELSE [advanced EXCEPT !.log = Append(@, [province |-> province_entity,
                                                event |-> "advanced"])]

\* A siege whose completion hands the province to the besieger.
advance_siege_annexes(st, province_entity) ==
    LET advanced == [st EXCEPT !.siege[province_entity].progress = @ + 1]
    IN IF advanced.siege[province_entity].progress >= SIEGE_TURNS_REQUIRED
       THEN [advanced EXCEPT !.cmds = @ \o
                <<[op |-> "remove_siege", province |-> province_entity],
                  [op |-> "insert_owner", province |-> province_entity,
                   owner |-> advanced.siege[province_entity].besieger_country]>>,
                !.log = Append(@, [province |-> province_entity, event |-> "occupied"])]
       ELSE [advanced EXCEPT !.log = Append(@, [province |-> province_entity,
                                                event |-> "advanced"])]

advance_siege(st, province_entity) ==
    LET advanced == [st EXCEPT !.siege[province_entity].progress = @ + 1]
    IN IF advanced.siege[province_entity].progress >= SIEGE_TURNS_REQUIRED
       THEN [advanced EXCEPT !.cmds = @ \o
                <<[op |-> "remove_siege", province |-> province_entity],
                  [op |-> "insert_occupied", province |-> province_entity,
                   occupier |-> advanced.siege[province_entity].besieger_country]>>,
                !.log = Append(@, [province |-> province_entity, event |-> "occupied"])]
       ELSE [advanced EXCEPT !.log = Append(@, [province |-> province_entity,
                                                event |-> "advanced"])]

lift_siege(st, province_entity) ==
    [st EXCEPT !.cmds = Append(@, [op |-> "remove_siege", province |-> province_entity]),
               !.log = Append(@, [province |-> province_entity, event |-> "lifted"])]

\* The provinces the siege query yields.  Each iteration touches its own
\* province only, so the order of the query does not show.
RECURSIVE update_existing_sieges(_, _)
update_existing_sieges(st, provinces) ==
    IF provinces = <<>> THEN st
    ELSE LET province_entity == Head(provinces)
         IN update_existing_sieges(
               IF occupied[province_entity] # NoEntity
               THEN [st EXCEPT !.cmds = Append(@, [op |-> "remove_siege",
                                                   province |-> province_entity]),
                               !.log = Append(@, [province |-> province_entity,
                                                  event |-> "cleared"])]
               ELSE IF is_besieger_present(province_entity, st.siege[province_entity])
                    THEN advance_siege(st, province_entity)
                    ELSE lift_siege(st, province_entity),
               Tail(provinces))

try_start_siege(st, province_entity, army_owner) ==
    IF /\ occupied[province_entity] = NoEntity
       /\ owner[province_entity] # NoEntity
       /\ are_at_war(army_owner, owner[province_entity])
    THEN [st EXCEPT !.cmds = Append(@, [op |-> "insert_siege", province |-> province_entity,
                                        siege |-> [besieger_country |-> army_owner,
                                                   progress |-> 1]]),
                    !.log = Append(@, [province |-> province_entity, event |-> "started"])]
    ELSE st

RECURSIVE check_for_new_sieges(_, _)
check_for_new_sieges(st, order) ==
    IF order = <<>> THEN st
    ELSE LET province_entity == get_entity(army[Head(order)].pos)
         IN check_for_new_sieges(
               IF province_entity = 0 THEN st
               ELSE IF siege[province_entity] # NoSiege /\ owner[province_entity] # NoEntity
                    THEN st
                    ELSE try_start_siege(st, province_entity, army[Head(order)].owner),
               Tail(order))

\* order is the order in which the army query yields the armies.
update_siege_progress ==
    \E order \in Orders(DOMAIN army) :
        LET besieged == SelectSeq(SetToSeq(Provs),
                                  LAMBDA p : siege[p] # NoSiege /\ owner[p] # NoEntity)
            st == check_for_new_sieges(
                      update_existing_sieges([siege |-> siege, cmds |-> <<>>, log |-> <<>>],
                                             besieged),
                      order)
            w == apply_commands([World(at_war_with) EXCEPT !.siege = st.siege], st.cmds)
        IN /\ siege' = w.siege
           /\ owner' = w.owner
           /\ occupied' = w.occupied
           /\ last' = [op |-> "siege", log |-> st.log]
           /\ UNCHANGED <<warVars, offerVars, player, terrain, armyVars>>

(***************************************************************************)
(* LOADING A SAVED GAME (src/savegame.rs, handle_load_game)                 *)
(*                                                                         *)
(* A country is named in the file by its display name, which the lookup     *)
(* built from the live countries turns back into its entity; the model      *)
(* names a country by its entity throughout.  The turn counter and the      *)
(* coffers are not part of the state.                                       *)
(***************************************************************************)
SaveWarIds == 1..(MaxWars + MaxSaveWars + MaxOffers)

\* The wars collect_wars_data writes: one entry per live War of the list.
\* Wars are declared from the diplomacy panel, by the player's country c1.
WarSaveDatas ==
    {w \in [attacker : {"c1"}, defender : Countries] : w.attacker # w.defender}

\* The files handle_save_game writes on the one-province map: the province
\* of c1, free or occupied by c2, with the army of c1 on it, and up to
\* MaxSaveWars wars.
SaveDatas ==
    [player_country_name : {"c1"},
     provinces : {<<[hex |-> HexOf(1), owner |-> "c1", occupier |-> o]>> :
                     o \in {NoEntity, "c2"}},
     armies : {<<[hex |-> HexOf(1), owner |-> "c1", infantry |-> 1,
                  cavalry |-> 0, artillery |-> 0]>>},
     wars : UNION {[1..n -> WarSaveDatas] : n \in 0..MaxSaveWars}]

RECURSIVE restore_provinces(_, _)
restore_provinces(provinces, cmds) ==
    IF provinces = <<>> THEN cmds
    ELSE LET prov_save == Head(provinces)
             prov_entity == get_entity(prov_save.hex)
         IN IF prov_entity = 0 THEN restore_provinces(Tail(provinces), cmds)
            ELSE restore_provinces(Tail(provinces),
                    cmds \o <<[op |-> "remove_owner", province |-> prov_entity],
                              [op |-> "remove_occupied", province |-> prov_entity]>>
                         \o (IF prov_save.owner # NoEntity
                             THEN <<[op |-> "insert_owner", province |-> prov_entity,
                                     owner |-> prov_save.owner]>>
                             ELSE <<>>)
                         \o (IF prov_save.occupier # NoEntity
                             THEN <<[op |-> "insert_occupied", province |-> prov_entity,
                                     occupier |-> prov_save.occupier]>>
                             ELSE <<>>))

RECURSIVE spawn_armies_from_save(_, _)
spawn_armies_from_save(armies, st) ==
    IF armies = <<>> THEN st
    ELSE LET army_save == Head(armies)
             army_entity == Min((1..(Cardinality(DOMAIN army) + Cardinality(st.ids) + 1))
                                   \ (DOMAIN army \cup st.ids))
         IN spawn_armies_from_save(Tail(armies),
                [st EXCEPT !.ids = @ \cup {army_entity},
                           !.map = MapInsert(@, army_save.hex, army_entity),
                           !.cmds = Append(@,
                               [op |-> "spawn_army", id |-> army_entity,
                                army |-> [owner |-> army_save.owner, pos |-> army_save.hex,
                                          infantry |-> army_save.infantry,
                                          cavalry |-> army_save.cavalry,
                                          artillery |-> army_save.artillery,
                                          path |-> <<>>, in_battle |-> 0]])])

restore_armies(armies, cmds) ==
    spawn_armies_from_save(armies,
        [ids |-> {}, map |-> <<>>,
         cmds |-> cmds \o [i \in 1..Cardinality(DOMAIN army) |->
                             [op |-> "despawn_army", army |-> SetToSeq(DOMAIN army)[i]]]])

create_war_from_save(war_save, st) ==
    LET war_entity == Min(SaveWarIds \ (WarIdsInUse \cup st.ids))
    IN [st EXCEPT !.ids = @ \cup {war_entity},
                  !.active = Append(@, war_entity),
                  !.cmds = @ \o
                     <<[op |-> "spawn_war", id |-> war_entity,
                        attacker |-> war_save.attacker, defender |-> war_save.defender],
                       [op |-> "insert_relations", country |-> war_save.attacker,
                        at_war_with |-> {war_save.defender}],
                       [op |-> "insert_relations", country |-> war_save.defender,
                        at_war_with |-> {war_save.attacker}]>>]

RECURSIVE create_wars_from_save(_, _)
create_wars_from_save(wars, st) ==
    IF wars = <<>> THEN st
    ELSE create_wars_from_save(Tail(wars), create_war_from_save(Head(wars), st))

restore_wars(wars, cmds) ==
    create_wars_from_save(wars,
        [ids |-> {}, active |-> <<>>,
         cmds |-> cmds \o [i \in 1..Cardinality(DOMAIN war) |->
                             [op |-> "despawn_war", id |-> SetToSeq(DOMAIN war)[i]]]])

\* handle_load_game on one LoadGameEvent whose file holds save_data.
load_game(save_data) ==
        LET provinces == restore_provinces(save_data.provinces, <<>>)
            armies == restore_armies(save_data.armies, provinces)
            wars == restore_wars(save_data.wars, armies.cmds)
            w == apply_commands(World(at_war_with), wars.cmds)
        IN /\ player' = save_data.player_country_name
           /\ owner' = w.owner
           /\ occupied' = w.occupied
           /\ army' = w.army
           /\ army_hex_map' = armies.map
           /\ at_war_with' = w.rel
           /\ has_relations' = w.has
           /\ war' = w.war
           /\ active_wars' = wars.active
           /\ last' = [op |-> "load", save_data |-> save_data]
           /\ UNCHANGED <<offerVars, siege, terrain, battle>>

\* One run of handle_load_game over one LoadGameEvent.
handle_load_game == \E save_data \in SaveDatas : load_game(save_data)

\* The same run on the files with at most MaxTruceWars wars.
TruceSaves == {s \in SaveDatas : Len(s.wars) <= MaxTruceWars}

handle_load_game_truce == \E save_data \in TruceSaves : load_game(save_data)

(***************************************************************************)
(* SPECIFICATIONS                                                           *)
(***************************************************************************)
\* Countries are spawned without a WarRelations component (CountryBundle),
\* no war, offer or message exists, the player is the first country.
InitDiplomacy ==
    /\ at_war_with = [c \in Countries |-> {}]
    /\ has_relations = {}
    /\ war = <<>>
    /\ active_wars = <<>>
    /\ offer = <<>>
    /\ accept_peace_events = <<>>
    /\ player = "c1"
    /\ army = <<>>
    /\ army_hex_map = <<>>
    /\ battle = <<>>
    /\ last = [op |-> "init"]

\* The war state machine alone, on a world without provinces.
InitWar ==
    /\ InitDiplomacy
    /\ owner = <<>>
    /\ occupied = <<>>
    /\ siege = <<>>
    /\ terrain = <<>>

NextWar ==
    \/ handle_declare_war
    \/ handle_peace_offers
    \/ ai_handle_peace_offers
    \/ player_accept
    \/ player_decline
    \/ handle_accept_peace

SpecWar == InitWar /\ [][NextWar]_vars

\* The war state machine with provinces: two provinces owned as the map data
\* says, requests arriving one per run as the diplomacy panel writes them,
\* occupation as the battle engine requests it.
InitPeace ==
    /\ InitDiplomacy
    /\ owner \in {<<"c1", "c2">>}
    /\ occupied = <<NoEntity, NoEntity>>
    /\ siege = <<NoSiege, NoSiege>>
    /\ terrain = <<"Plains", "Plains">>

NextPeace ==
    \/ declare_war_click
    \/ peace_offer_click
    \/ ai_handle_peace_offers
    \/ handle_accept_peace
    \/ OccupyProvince

SpecPeace == InitPeace /\ [][NextPeace]_vars

\* The AI's decision on its inputs: a war of the player's country c1 and c2
\* is on, c2 owns all provinces or all but the last, and the PeaceOffer
\* entities alive are offers of that war, in either direction, each demanding
\* a run of consecutive provinces (or none).
AiOwnerMaps ==
    {[p \in 1..AiProvs |-> IF p <= k THEN "c2" ELSE "c1"] : k \in {AiProvs - 1, AiProvs}}

AiDemands == {lo..hi : lo \in 1..AiProvs, hi \in 0..AiProvs}

AiOffers ==
    {e \in [from : {"c1", "c2"}, to : {"c1", "c2"}, war_entity : {1},
            provinces_to_cede : AiDemands] : e.from # e.to}

InitAi ==
    /\ at_war_with = [c \in Countries |-> IF c = "c1" THEN {"c2"}
                                          ELSE IF c = "c2" THEN {"c1"} ELSE {}]
    /\ has_relations = {"c1", "c2"}
    /\ war = <<[attacker |-> "c1", defender |-> "c2"]>>
    /\ active_wars = <<1>>
    /\ offer \in Batches(AiOffers, MaxOffers)
    /\ accept_peace_events = <<>>
    /\ player = "c1"
    /\ owner \in AiOwnerMaps
    /\ occupied = [p \in 1..AiProvs |-> NoEntity]
    /\ siege = [p \in 1..AiProvs |-> NoSiege]
    /\ terrain = [p \in 1..AiProvs |-> "Plains"]
    /\ army = <<>>
    /\ army_hex_map = <<>>
    /\ battle = <<>>
    /\ last = [op |-> "init"]

NextAi ==
    \/ ai_handle_peace_offers
    \/ handle_accept_peace

SpecAi == InitAi /\ [][NextAi]_vars

\* The engine: movement, battles and sieges on three provinces in mid-game.
\* The player's country c1 is at war with c2 and holds two armies, its first
\* and one recruited in its other province; c2's army stands where it was
\* spawned.  Only the player's armies receive orders.  The armies have been
\* worn down to a few units, so that a battle lasts a round or two and
\* either side, or neither, may survive it.  The same position is taken up
\* with the two countries at peace.
spawn_army(owner_entity, p, comp) ==
    [owner |-> owner_entity, pos |-> HexOf(p), infantry |-> comp.infantry,
     cavalry |-> comp.cavalry, artillery |-> comp.artillery,
     path |-> <<>>, in_battle |-> 0]

InitArmy ==
    /\ \/ /\ at_war_with = [c \in Countries |-> IF c = "c1" THEN {"c2"}
                                                ELSE IF c = "c2" THEN {"c1"} ELSE {}]
          /\ has_relations = {"c1", "c2"}
          /\ war = <<[attacker |-> "c1", defender |-> "c2"]>>
          /\ active_wars = <<1>>
       \/ /\ at_war_with = [c \in Countries |-> {}]
          /\ has_relations = {}
          /\ war = <<>>
          /\ active_wars = <<>>
    /\ offer = <<>>
    /\ accept_peace_events = <<>>
    /\ player = "c1"
    /\ owner = <<"c1", "c2", "c1">>
    /\ occupied = <<NoEntity, NoEntity, NoEntity>>
    /\ siege = <<NoSiege, NoSiege, NoSiege>>
    /\ terrain = <<"Plains", "Plains", "Plains">>
    /\ army = <<spawn_army("c1", 1, [infantry |-> 1, cavalry |-> 0, artillery |-> 1]),
                spawn_army("c2", 2, [infantry |-> 1, cavalry |-> 1, artillery |-> 0]),
                spawn_army("c1", 3, [infantry |-> 1, cavalry |-> 0, artillery |-> 0])>>
    /\ army_hex_map = [h \in Hexes |-> get_entity(h)]
    /\ battle = <<>>
    /\ last = [op |-> "init"]

NextArmy ==
    \/ army_movement_system
    \/ move_active_armies
    \/ resolve_battles
    \/ update_siege_progress

SpecArmy == InitArmy /\ [][NextArmy]_vars

\* The engine on four provinces in two rows of two, so that the first and
\* the last are not neighbours.  c1, the player's country, is at war with
\* c2; its army stands on the second province, the army of c2 on the first.
InitMarch ==
    /\ at_war_with = [c \in Countries |-> IF c = "c1" THEN {"c2"}
                                          ELSE IF c = "c2" THEN {"c1"} ELSE {}]
    /\ has_relations = {"c1", "c2"}
    /\ war = <<[attacker |-> "c1", defender |-> "c2"]>>
    /\ active_wars = <<1>>
    /\ offer = <<>>
    /\ accept_peace_events = <<>>
    /\ player = "c1"
    /\ owner = <<"c2", "c1", "c1", "c1">>
    /\ occupied = <<NoEntity, NoEntity, NoEntity, NoEntity>>
    /\ siege = <<NoSiege, NoSiege, NoSiege, NoSiege>>
    /\ terrain = <<"Plains", "Plains", "Plains", "Plains">>
    /\ army = <<spawn_army("c1", 2, [infantry |-> 1, cavalry |-> 0, artillery |-> 1]),
                spawn_army("c2", 1, [infantry |-> 1, cavalry |-> 0, artillery |-> 0])>>
    /\ army_hex_map = (HexOf(2) :> 1) @@ (HexOf(1) :> 2)
    /\ battle = <<>>
    /\ last = [op |-> "init"]

SpecMarch == InitMarch /\ [][NextArmy]_vars

\* A battle and a third army.  c1 and c2 are at war; the army of one of
\* them has moved against the army of the other, on a neighbouring hex, and
\* the battle has not fought a round yet.  The third army, a neighbour of
\* both, is a second army of c1 or the army of c3, which is at war with c1,
\* with c2, with both or with neither.  The player has since taken over the
\* owner of the third army (display_country_selection, which the pause menu
\* leads back to), whose armies are the ones that are ordered.
InitJoin ==
    /\ \E third \in {"c1", "c3"}, enemies \in SUBSET {"c1", "c2"}, mover \in 1..2 :
          /\ third = "c1" => enemies = {}
          /\ at_war_with = [c \in Countries |->
                               IF c = "c3" THEN enemies
                               ELSE ({"c1", "c2"} \ {c}) \cup
                                    (IF c \in enemies THEN {"c3"} ELSE {})]
          /\ has_relations = {"c1", "c2"} \cup (IF enemies = {} THEN {} ELSE {"c3"})
          /\ war = [i \in 1..(1 + Cardinality(enemies)) |->
                       IF i = 1 THEN [attacker |-> "c1", defender |-> "c2"]
                       ELSE [attacker |-> "c3",
                             defender |-> SetToSeq({n \in 1..2 : <<"c1", "c2">>[n] \in enemies})[i - 1]]]
          /\ active_wars = [i \in 1..(1 + Cardinality(enemies)) |-> i]
          /\ player = third
          /\ owner = <<"c1", "c2", third>>
          /\ army = [a \in 1..3 |->
                        [spawn_army(<<"c1", "c2", third>>[a], a,
                                    [infantry |-> 1, cavalry |-> 0, artillery |-> 0])
                            EXCEPT !.in_battle = IF a = 3 THEN 0 ELSE 1]]
          /\ battle = <<[attackers |-> <<mover>>, defenders |-> <<3 - mover>>,
                         attacker_country |-> <<"c1", "c2">>[mover],
                         defender_country |-> <<"c1", "c2">>[3 - mover],
                         location |-> HexOf(3 - mover), round |-> 0,
                         last_damage_attacker |-> 0, last_damage_defender |-> 0]>>
    /\ offer = <<>>
    /\ accept_peace_events = <<>>
    /\ occupied = <<NoEntity, NoEntity, NoEntity>>
    /\ siege = <<NoSiege, NoSiege, NoSiege>>
    /\ terrain = <<"Plains", "Plains", "Plains">>
    /\ army_hex_map = [h \in Hexes |-> get_entity(h)]
    /\ last = [op |-> "init"]

NextJoin ==
    \/ army_movement_system
    \/ move_active_armies
    \/ resolve_battles

SpecJoin == InitJoin /\ [][NextJoin]_vars

\* resolve_battles is a system of the Update schedule: it runs in every
\* frame, whatever the player does.  The condition is weak fairness of
\* resolve_battles written out: a pass over a battle removes it or fights a
\* round that raises its round counter, so the action is enabled exactly
\* when a battle exists.
SpecJoinFair ==
    SpecJoin /\ ([]<>(DOMAIN battle = {}) \/ []<><<resolve_battles>>_vars)

\* apply_damage_to_composition on its inputs: an army of up to MaxUnits
\* units of each kind takes a damage of up to MaxDamage, round after round.
\* The world holds that army alone.
Compositions(n) == [infantry : 0..n, cavalry : 0..n, artillery : 0..n]

InitEmptyWorld ==
    /\ at_war_with = [c \in Countries |-> {}]
    /\ has_relations = {}
    /\ war = <<>>
    /\ active_wars = <<>>
    /\ offer = <<>>
    /\ accept_peace_events = <<>>
    /\ player = "c1"
    /\ owner = <<"c1">>
    /\ occupied = <<NoEntity>>
    /\ siege = <<NoSiege>>
    /\ terrain = <<"Plains">>
    /\ battle = <<>>

InitDamage ==
    /\ InitEmptyWorld
    /\ \E comp \in Compositions(MaxUnits) : army = <<spawn_army("c1", 1, comp)>>
    /\ army_hex_map = [h \in {HexOf(1)} |-> 1]
    /\ last = [op |-> "init"]

take_damage ==
    \E damage \in 0..MaxDamage :
        /\ army' = [army EXCEPT ![1] = apply_damage_to_composition(@, damage)]
        /\ last' = [op |-> "damage", damage |-> damage, before |-> composition(army[1])]
        /\ UNCHANGED <<warVars, offerVars, provVars, player, terrain, army_hex_map, battle>>

NextDamage == take_damage

\* apply_damage_to_side on its inputs: two armies of up to MaxUnits units of
\* each kind; a side list of one or two entries over them takes a damage of
\* up to MaxDamage in one round.
SideLists == {l \in UNION {[1..n -> 1..2] : n \in 1..2} : TRUE}

InitSide ==
    /\ InitEmptyWorld
    /\ \E comp1 \in Compositions(MaxUnits), comp2 \in Compositions(MaxUnits) :
          army = <<spawn_army("c1", 1, comp1), spawn_army("c1", 1, comp2)>>
    /\ army_hex_map = [h \in {HexOf(1)} |-> 1]
    /\ last = [op |-> "init"]

take_side_damage ==
    \E army_list \in SideLists, total_damage \in 0..MaxDamage :
        /\ last.op = "init"
        /\ army' = apply_damage_to_side(army, army_list, total_damage)
        /\ last' = [op |-> "side", army_list |-> army_list, damage |-> total_damage,
                    before |-> army]
        /\ UNCHANGED <<warVars, offerVars, provVars, player, terrain, army_hex_map, battle>>

NextSide == take_side_damage

SpecSide == InitSide /\ [][NextSide]_vars

SpecDamage == InitDamage /\ [][NextDamage]_vars

\* Move orders on a map of PathProvs provinces in rows of two, each plains
\* or sea.  The player's country holds the land and two armies on its first
\* province: the first is the army the index lists there, the second stands
\* stacked on it after a battle both have won (end_battle_multi) and is not
\* listed.
InitPath ==
    /\ at_war_with = [c \in Countries |-> {}]
    /\ has_relations = {}
    /\ war = <<>>
    /\ active_wars = <<>>
    /\ offer = <<>>
    /\ accept_peace_events = <<>>
    /\ player = "c1"
    /\ terrain \in [1..PathProvs -> {"Plains", "Sea"}]
    /\ terrain[1] = "Plains"
    /\ owner = [p \in 1..PathProvs |-> IF is_ownable(terrain[p]) THEN "c1" ELSE NoEntity]
    /\ occupied = [p \in 1..PathProvs |-> NoEntity]
    /\ siege = [p \in 1..PathProvs |-> NoSiege]
    /\ army = <<spawn_army("c1", 1, [infantry |-> 1, cavalry |-> 0, artillery |-> 0]),
                spawn_army("c1", 1, [infantry |-> 1, cavalry |-> 0, artillery |-> 0])>>
    /\ army_hex_map = [h \in {HexOf(1)} |-> 1]
    /\ battle = <<>>
    /\ last = [op |-> "init"]

NextPath ==
    \/ army_movement_system
    \/ move_active_armies

SpecPath == InitPath /\ [][NextPath]_vars

\* Loading on a one-province map: the player declares a war from the
\* diplomacy panel, and a save file is loaded, in any order.
InitLoad ==
    /\ InitEmptyWorld
    /\ army = <<spawn_army("c1", 1, [infantry |-> 1, cavalry |-> 0, artillery |-> 0])>>
    /\ army_hex_map = [h \in {HexOf(1)} |-> 1]
    /\ last = [op |-> "init"]

NextLoad ==
    \/ declare_war_click
    \/ handle_load_game

SpecLoad == InitLoad /\ [][NextLoad]_vars

\* Peace and loading on the one-province map: wars are declared, offers are
\* made, answered by the AI or by the player and accepted, and a save file
\* is loaded, in any order.  Loading replaces the wars and leaves the offers.
NextTruce ==
    \/ declare_war_click
    \/ handle_peace_offers
    \/ ai_handle_peace_offers
    \/ player_accept
    \/ player_decline
    \/ handle_accept_peace
    \/ handle_load_game_truce

SpecTruce == InitLoad /\ [][NextTruce]_vars

\* One pass of the Update schedule over the peace systems.  WarPlugin::build
\* adds ai_handle_peace_offers and handle_accept_peace to Update with no
\* ordering between them: either runs first, and the same one need not run
\* first in every pass.  Each runs once; the commands of both are applied
\* when the pass ends, so both see the PeaceOffer and War entities of the
\* start of the pass.  handle_accept_peace reads the messages it has not
\* read yet: those of the earlier passes and, where the AI ran before it,
\* those of this pass.
update(ai_first) ==
    \E ids \in Orders({o \in DOMAIN offer : offer[o].to # player}) :
        LET ai == ai_peace_loop(ids, [events |-> <<>>, cmds |-> <<>>,
                                      accepted |-> {}, rejected |-> {}])
            unread == IF ai_first THEN accept_peace_events \o ai.events
                      ELSE accept_peace_events
            st == accept_peace_loop(unread,
                     [rel |-> at_war_with, active |-> active_wars,
                      cmds |-> <<>>, log |-> <<>>])
            w == apply_commands(World(st.rel),
                     IF ai_first THEN ai.cmds \o st.cmds ELSE st.cmds \o ai.cmds)
        IN /\ DOMAIN offer # {} \/ accept_peace_events # <<>>
           /\ at_war_with' = w.rel
           /\ has_relations' = w.has
           /\ war' = w.war
           /\ active_wars' = st.active
           /\ offer' = w.offer
           /\ owner' = w.owner
           /\ occupied' = w.occupied
           /\ siege' = w.siege
           /\ accept_peace_events' = IF ai_first THEN <<>> ELSE ai.events
           /\ last' = [op |-> "update", ai_first |-> ai_first,
                       unread |-> accept_peace_events,
                       accepted |-> ai.accepted, rejected |-> ai.rejected,
                       log |-> st.log]
           /\ UNCHANGED <<player, terrain, armyVars>>

update_ai_first == update(TRUE)

update_accept_first == update(FALSE)

\* The player's wars and offers on the two-province map, the peace systems
\* running pass by pass.
NextUpdate ==
    \/ declare_war_click
    \/ peace_offer_click
    \/ OccupyProvince
    \/ update_ai_first
    \/ update_accept_first

SpecUpdate == InitPeace /\ [][NextUpdate]_vars

\* Sieges and peace on two provinces: c1, the player's country, owns the
\* first and has its army on it, c2 owns the second and has no army.  The
\* player declares wars, orders the army and offers peace; the army moves,
\* the siege passes run and the AI answers, in any order.
InitSiege ==
    /\ at_war_with = [c \in Countries |-> {}]
    /\ has_relations = {}
    /\ war = <<>>
    /\ active_wars = <<>>
    /\ offer = <<>>
    /\ accept_peace_events = <<>>
    /\ player = "c1"
    /\ owner = <<"c1", "c2">>
    /\ occupied = <<NoEntity, NoEntity>>
    /\ siege = <<NoSiege, NoSiege>>
    /\ terrain = <<"Plains", "Plains">>
    /\ army = <<spawn_army("c1", 1, [infantry |-> 1, cavalry |-> 0, artillery |-> 0])>>
    /\ army_hex_map = [h \in {HexOf(1)} |-> 1]
    /\ battle = <<>>
    /\ last = [op |-> "init"]

NextSiege ==
    \/ declare_war_click
    \/ peace_offer_click
    \/ ai_handle_peace_offers
    \/ handle_accept_peace
    \/ army_movement_system
    \/ move_active_armies
    \/ update_siege_progress

SpecSiege == InitSiege /\ [][NextSiege]_vars

\* Hex::distance on its inputs: two hexes with axial coordinates of at most
\* MaxCoord either way, as generate_map has them within its radius.
BoundedHexes == (-MaxCoord..MaxCoord) \X (-MaxCoord..MaxCoord)

InitHex ==
    /\ InitEmptyWorld
    /\ army = <<>>
    /\ army_hex_map = <<>>
    /\ last \in [op : {"init"}, a : BoundedHexes, b : BoundedHexes]

take_distance ==
    /\ last.op = "init"
    /\ last' = [op |-> "distance", a |-> last.a, b |-> last.b,
                there |-> distance(last.a, last.b),
                back |-> distance(last.b, last.a),
                self |-> distance(last.a, last.a)]
    /\ UNCHANGED <<warVars, offerVars, provVars, player, terrain, armyVars>>

NextHex == take_distance

SpecHex == InitHex /\ [][NextHex]_vars

(***************************************************************************)
(* PROPERTIES                                                               *)
(***************************************************************************)
\* C1: after any sequence of declare-war and peace-acceptance runs, X's war
\* relations contain Y if and only if Y's contain X.
WarSymmetry ==
    \A x \in Countries, y \in Countries :
        y \in at_war_with[x] <=> x \in at_war_with[y]

\* C2: a War record of the pair X, Y exists and is listed in active_wars if
\* and only if each country's relations contain the other; no pair has two
\* War records, and every listed entry is a live War.
WarRecordMatchesRelations ==
    /\ \A x \in Countries, y \in Countries :
          x # y =>
            /\ (WarsBetween(x, y) \cap Range(active_wars) # {})
                  <=> (y \in at_war_with[x] /\ x \in at_war_with[y])
            /\ (WarsBetween(x, y) # {})
                  <=> (y \in at_war_with[x] /\ x \in at_war_with[y])
            /\ (y \in at_war_with[x] \/ x \in at_war_with[y]) => WarsBetween(x, y) # {}
            /\ Cardinality(WarsBetween(x, y)) <= 1
    /\ \A i, j \in DOMAIN active_wars : i # j => active_wars[i] # active_wars[j]

\* C3: a declare-war request whose attacker is the defender, or whose two
\* countries are already at war when it is processed, creates no War record:
\* every War record a run creates is of two different countries that were not
\* at war before the run, and no run creates two records for one pair.
AtWar(x, y) == y \in at_war_with[x] \/ x \in at_war_with[y] \/ WarsBetween(x, y) # {}

RejectedDeclarationCreatesNothing ==
    [][\A w \in DOMAIN war' \ DOMAIN war :
          /\ war'[w].attacker # war'[w].defender
          /\ ~AtWar(war'[w].attacker, war'[w].defender)
          /\ \A v \in DOMAIN war' \ DOMAIN war :
                {war'[v].attacker, war'[v].defender} = {war'[w].attacker, war'[w].defender}
                    => v = w]_vars

\* C8: when a peace offer from X to Y for an existing War is accepted, then
\* after the run every province listed in the offer is owned by X and carries
\* no occupation marker, no province owned by X or Y carries an occupation
\* marker held by the other, X and Y are absent from each other's war
\* relations, the War is neither listed in active_wars nor alive, and the
\* offer is gone.
PeaceAcceptanceEffects ==
    [][last'.op = "accept" =>
        \A e \in Range(accept_peace_events) :
            (e \in DOMAIN offer /\ offer[e].war_entity \in DOMAIN war) =>
                LET o == offer[e]
                    X == o.from
                    Y == o.to
                IN /\ \A p \in o.provinces_to_cede :
                        owner'[p] = X /\ occupied'[p] = NoEntity
                   /\ \A p \in Provs :
                        /\ owner'[p] = X => occupied'[p] # Y
                        /\ owner'[p] = Y => occupied'[p] # X
                   /\ Y \notin at_war_with'[X]
                   /\ X \notin at_war_with'[Y]
                   /\ o.war_entity \notin Range(active_wars')
                   /\ o.war_entity \notin DOMAIN war'
                   /\ e \notin DOMAIN offer']_vars

\* A run of handle_accept_peace has accepted an offer that ceded the second
\* province, owned by another country at the start, to the player's country.
PeaceAcceptedWithCession ==
    /\ last.op = "accept"
    /\ \E i \in DOMAIN last.log : last.log[i].result = "accepted"
    /\ owner[2] = player
    /\ \A p \in Provs : occupied[p] = NoEntity

\* C10: a run of the AI decides every offer whose recipient is not the
\* player's country: it accepts (writes one AcceptPeaceEvent, the offer stays)
\* if and only if no province is demanded, or at most 2 of the demanded
\* provinces are owned by the recipient, or the demanded provinces owned by
\* the recipient are strictly less than 30% of the provinces the recipient
\* owns; otherwise the offer is destroyed and nothing else changes.  An offer
\* addressed to the player's country is left as it is, with no event for it.
Count(seq, x) == Cardinality({i \in DOMAIN seq : seq[i] = x})

AiShouldAccept(o) ==
    LET demanded == o.provinces_to_cede
        from_recipient == {p \in demanded : p \in Provs /\ owner[p] = o.to}
        recipient_owned == {p \in Provs : owner[p] = o.to}
    IN \/ demanded = {}
       \/ Cardinality(from_recipient) <= 2
       \/ 10 * Cardinality(from_recipient) < 3 * Cardinality(recipient_owned)

AiDecision ==
    [][last'.op = "ai" =>
        /\ \A o \in DOMAIN offer :
              IF offer[o].to = player
              THEN /\ o \in DOMAIN offer' /\ offer'[o] = offer[o]
                   /\ Count(accept_peace_events', o) = Count(accept_peace_events, o)
              ELSE IF AiShouldAccept(offer[o])
                   THEN /\ o \in DOMAIN offer' /\ offer'[o] = offer[o]
                        /\ Count(accept_peace_events', o) = Count(accept_peace_events, o) + 1
                   ELSE /\ o \notin DOMAIN offer'
                        /\ Count(accept_peace_events', o) = Count(accept_peace_events, o)
        /\ DOMAIN offer' \subseteq DOMAIN offer
        /\ UNCHANGED <<warVars, provVars, player, terrain, armyVars>>]_vars

\* The AI has accepted an offer that demands 3 of the recipient's provinces,
\* less than 30% of what the recipient owns.
AiAcceptedByRatio ==
    /\ last.op = "ai"
    /\ \E o \in last.accepted :
          /\ o \in DOMAIN offer
          /\ Cardinality({p \in offer[o].provinces_to_cede : owner[p] = offer[o].to}) = 3

(***************************************************************************)
(* PROPERTIES OF THE ENGINE                                                 *)
(***************************************************************************)
\* The armies of a list that exist with at least one unit.
LiveArmies(armies, army_list) ==
    {e \in Range(army_list) : e \in DOMAIN armies /\ total_size(armies[e]) > 0}

\* C4, as claimed: at the end of every battle-resolution step every battle
\* that is still active lists a live army of size > 0 on the attacking side
\* and one on the defending side (a battle a round has left without
\* survivors on a side has been resolved and removed by that same step).
ActiveBattlesHaveLiveSides ==
    last.op = "resolve" =>
        \A b \in DOMAIN battle :
            /\ LiveArmies(army, battle[b].attackers) # {}
            /\ LiveArmies(army, battle[b].defenders) # {}

\* C4, as amended: a resolution step ends every battle that enters it with
\* a side without a live army of size > 0, and every battle it leaves active
\* has two non-empty lists that name only armies which were alive with size
\* > 0 when the step began.
BattleEndsAtNextResolution ==
    [][last'.op = "resolve" =>
         \A b \in DOMAIN battle :
            LET live_attackers == LiveArmies(army, battle[b].attackers)
                live_defenders == LiveArmies(army, battle[b].defenders)
            IN /\ (live_attackers = {} \/ live_defenders = {}) => b \notin DOMAIN battle'
               /\ b \in DOMAIN battle' =>
                     /\ battle'[b].attackers # <<>>
                     /\ battle'[b].defenders # <<>>
                     /\ Range(battle'[b].attackers) \subseteq live_attackers
                     /\ Range(battle'[b].defenders) \subseteq live_defenders]_vars

\* A round has killed the last defender and the step after it has ended the
\* battle in favour of the attackers.
BattleEndedAfterLethalRound ==
    /\ last.op = "resolve"
    /\ \E i \in DOMAIN last.log : last.log[i].result = "attackers_won"
    /\ DOMAIN battle = {}

\* C5: when a moving army steps onto a hex held by a live army of the same
\* owner, the occupant's infantry, cavalry and artillery become the sums of
\* the two armies' counts, the mover is despawned and the occupant is not,
\* and the index has no entry at the hex the mover came from.
MergeKeepsOccupantWithSum ==
    last.op = "move" =>
        \A i \in DOMAIN last.log :
            LET m == last.log[i]
            IN /\ m.occupant_after.infantry
                     = m.mover_before.infantry + m.occupant_before.infantry
               /\ m.occupant_after.cavalry
                     = m.mover_before.cavalry + m.occupant_before.cavalry
               /\ m.occupant_after.artillery
                     = m.mover_before.artillery + m.occupant_before.artillery
               /\ total_size(m.occupant_after)
                     = total_size(m.mover_before) + total_size(m.occupant_before)
               /\ m.army \in m.despawned /\ m.army \notin DOMAIN army
               /\ m.occupant \notin m.despawned
               /\ (\A j \in DOMAIN last.log : last.log[j].army # m.occupant)
                     => /\ m.occupant \in DOMAIN army
                        /\ composition(army[m.occupant]) = m.occupant_after
               /\ ~m.former_hex_listed

\* A pass has merged the two armies of c1: one of them is left, with all
\* the units of both.
ArmiesMerged ==
    /\ last.op = "move"
    /\ Len(last.log) = 1
    /\ last.log[1].occupant \in DOMAIN army
    /\ total_size(army[last.log[1].occupant]) = 3

\* The province a battle that the attackers won was fought in and which the
\* claim of C6 is about: ownable and not owned by the attackers' country.
WonProvinces(log) ==
    {pc \in Provs \X Countries :
        \E i \in DOMAIN log :
            /\ log[i].result = "attackers_won"
            /\ get_entity(log[i].location) = pc[1]
            /\ log[i].attacker_country = pc[2]
            /\ is_ownable(terrain[pc[1]])
            /\ owner[pc[1]] # pc[2]}

\* C6, as claimed: when the attackers win a battle on an ownable province
\* that the attackers' country does not own, that country becomes the
\* province's owner.
AttackerWinTransfersOwnership ==
    [][last'.op = "resolve" =>
         \A pc \in WonProvinces(last'.log) : owner'[pc[1]] = pc[2]]_vars

\* C6, as amended: when the attackers win a battle on an ownable province
\* that has an owner other than the attackers' country, the province gets the
\* occupation marker of the attackers' country and keeps its owner.
AttackerWinOccupiesProvince ==
    [][last'.op = "resolve" =>
         \A pc \in WonProvinces(last'.log) :
            owner[pc[1]] # NoEntity =>
                /\ occupied'[pc[1]] = pc[2]
                /\ owner'[pc[1]] = owner[pc[1]]]_vars

\* The attackers of c1 have won the battle on province 2 of c2.
AttackersWonEnemyProvince ==
    /\ last.op = "resolve"
    /\ \E i \in DOMAIN last.log :
          /\ last.log[i].result = "attackers_won"
          /\ get_entity(last.log[i].location) = 2
          /\ last.log[i].attacker_country = "c1"
    /\ occupied[2] = "c1"
    /\ owner[2] = "c2"

\* C7: no province carries an occupation marker and a siege record at once.
OccupiedXorBesieged ==
    \A p \in Provs : ~(occupied[p] # NoEntity /\ siege[p] # NoSiege)

\* The countries other than the owner with an army on the province's hex.
ArmyCountriesAt(p) ==
    {army[a].owner : a \in {x \in DOMAIN army : get_entity(army[x].pos) = p}}

CasualtyMonotonicity ==
    last.op = "resolve" =>
        \A i \in DOMAIN last.log :
            LET r == last.log[i]
            IN r.result = "round" =>
                 /\ r.attackers_after <= r.attackers_before
                 /\ r.defenders_after <= r.defenders_before
                 /\ (r.def_dmg > 0 /\ r.attackers_before > 0)
                       => r.attackers_after < r.attackers_before
                 /\ (r.att_dmg > 0 /\ r.defenders_before > 0)
                       => r.defenders_after < r.defenders_before

\* A round in which two attacking armies share a damage of 1: either loses
\* a unit.
RoundWithSharedDamage ==
    /\ last.op = "resolve"
    /\ \E i \in DOMAIN last.log :
          /\ last.log[i].result = "round"
          /\ last.log[i].def_dmg = 1
          /\ last.log[i].attackers_before = 3
          /\ last.log[i].attackers_after = 1

\* The casualties a damage stands for: a unit per 20 points of damage, and
\* for a damage of less than 20 as many units as it has points, up to
\* MIN_DAMAGE.
Casualties(damage) ==
    IF damage \div 20 > 0 THEN damage \div 20 ELSE MinOf(damage, MIN_DAMAGE)

\* C12: an army that takes N casualties loses infantry first, cavalry only
\* once no infantry is left and artillery only once no cavalry is left; the
\* three losses add up to min(N, size of the army before) and no count goes
\* below 0.
KillPriority ==
    last.op = "damage" =>
        LET before == last.before
            after == composition(army[1])
            kill_inf == before.infantry - after.infantry
            kill_cav == before.cavalry - after.cavalry
            kill_art == before.artillery - after.artillery
        IN /\ after.infantry >= 0 /\ after.cavalry >= 0 /\ after.artillery >= 0
           /\ kill_inf >= 0 /\ kill_cav >= 0 /\ kill_art >= 0
           /\ kill_inf + kill_cav + kill_art
                 = MinOf(Casualties(last.damage), total_size(before))
           /\ kill_cav > 0 => after.infantry = 0
           /\ kill_art > 0 => after.infantry = 0 /\ after.cavalry = 0

\* A damage has taken the last foot, the last horse and a gun.
KillsReachArtillery ==
    /\ last.op = "damage"
    /\ last.before.infantry > 0 /\ last.before.cavalry > 0
    /\ army[1].infantry = 0 /\ army[1].cavalry = 0
    /\ army[1].artillery = last.before.artillery - 1

\* The iterations of the last movement pass.
MoveSteps == IF last.op = "move" THEN Range(last.steps) ELSE {}

\* The army an iteration found listed at the next hex of its mover's path;
\* 0 when the hex was free, listed a destroyed army or the mover itself.
EncounteredArmy(r) ==
    LET e1 == r.army
        path == r.before.army[e1].path
    IN IF path = <<>> \/ Head(path) \notin DOMAIN r.before.map THEN 0
       ELSE LET e2 == r.before.map[Head(path)]
            IN IF e2 \in DOMAIN r.before.army /\ e2 # e1 THEN e2 ELSE 0

\* The mover's next hex holds a live army of another owner that is in no
\* battle.
MeetsRestingForeignArmy(r) ==
    /\ EncounteredArmy(r) # 0
    /\ r.before.army[EncounteredArmy(r)].in_battle = 0
    /\ r.before.army[EncounteredArmy(r)].owner # r.before.army[r.army].owner

\* C13: when the next hex of an army's path holds a resting live army of
\* another owner and the two owners are not at war, the iteration creates no
\* Battle, marks neither army in-battle, removes the mover's path and leaves
\* the positions, the compositions and the index as they were.
NoBattleWithoutWar ==
    \A r \in MoveSteps :
        (/\ MeetsRestingForeignArmy(r)
         /\ ~are_at_war(r.before.army[r.army].owner,
                        r.before.army[EncounteredArmy(r)].owner))
        => /\ r.cmds = <<[op |-> "remove_path", army |-> r.army]>>
           /\ r.after.battle = r.before.battle
           /\ r.after.army = r.before.army
           /\ r.after.map = r.before.map
           /\ r.army \in DOMAIN army => army[r.army].path = <<>>

\* An army of c1 has been halted in front of the army of c2 in peace time.
HaltedBeforeNeutralArmy ==
    \E r \in MoveSteps :
        /\ MeetsRestingForeignArmy(r)
        /\ ~are_at_war(r.before.army[r.army].owner,
                       r.before.army[EncounteredArmy(r)].owner)
        /\ r.army \in DOMAIN army
        /\ army[r.army].pos # army[EncounteredArmy(r)].pos

\* The Battle entities the last movement pass spawned.
NewBattles(r) == DOMAIN battle \ DOMAIN r.before.battle

\* C14: when the next hex of an army's path holds a resting live army of
\* another owner and the two owners are at war, exactly one new Battle exists
\* at that hex after the pass, in round 0, with the mover as its only
\* attacker, the occupant as its only defender and their owners as its
\* countries; both armies are marked in-battle for that battle, the mover
\* has no path and neither army has changed position.
WarEncounterStartsOneBattle ==
    \A r \in MoveSteps :
        (/\ MeetsRestingForeignArmy(r)
         /\ are_at_war(r.before.army[r.army].owner,
                       r.before.army[EncounteredArmy(r)].owner))
        => LET e1 == r.army
               e2 == EncounteredArmy(r)
               next_hex == Head(r.before.army[e1].path)
               started == {b \in NewBattles(r) : battle[b].location = next_hex}
           IN /\ Cardinality(started) = 1
              /\ \A b \in started :
                    /\ battle[b].round = 0
                    /\ battle[b].attackers = <<e1>>
                    /\ battle[b].defenders = <<e2>>
                    /\ battle[b].attacker_country = r.before.army[e1].owner
                    /\ battle[b].defender_country = r.before.army[e2].owner
                    /\ army[e1].in_battle = b
                    /\ army[e2].in_battle = b
              /\ army[e1].path = <<>>
              /\ army[e1].pos = r.before.army[e1].pos
              /\ army[e2].pos = r.before.army[e2].pos

\* The live armies that are on no side of an active battle.
RestingArmies ==
    {a \in DOMAIN army :
        \A b \in DOMAIN battle :
            a \notin Range(battle[b].attackers) \cup Range(battle[b].defenders)}

\* C15: no two live resting armies share a hex, and every resting army is
\* the army the index records for its hex.
OneRestingArmyPerHex ==
    /\ \A a1, a2 \in RestingArmies : army[a1].pos = army[a2].pos => a1 = a2
    /\ \A a \in RestingArmies :
          /\ army[a].pos \in DOMAIN army_hex_map
          /\ army_hex_map[army[a].pos] = a

\* C16: no live army has size 0 and the index lists live armies only: an
\* army whose size reaches 0 in a battle round is destroyed, and has no index
\* entry, by the end of the resolution step of that round.
NoEmptyArmies ==
    /\ \A a \in DOMAIN army : total_size(army[a]) > 0
    /\ \A h \in DOMAIN army_hex_map : army_hex_map[h] \in DOMAIN army

\* A round has taken the last unit of the defenders, whose army the index
\* listed at the hex of the battle.
SideWipedOutInRound ==
    /\ last.op = "resolve"
    /\ \E i \in DOMAIN last.log :
          /\ last.log[i].result = "round"
          /\ last.log[i].defenders_before > 0
          /\ last.log[i].defenders_after = 0
          /\ last.log[i].location \notin DOMAIN army_hex_map

\* The hexes of the passable provinces, and the hexes one step away from a
\* set of hexes over them.
PassableHexes == {h \in Hexes : is_passable(terrain[get_entity(h)])}

Adjacent(h1, h2) == \E d \in 1..6 : neighbor(h1, d) = h2

StepFrom(S) == S \cup {h \in PassableHexes : \E s \in S : Adjacent(s, h)}

\* The least number of steps from a hex to a hex over passable provinces;
\* -1 when there is no such route.
RECURSIVE StepsBetween(_, _, _)
StepsBetween(S, goal, n) ==
    IF goal \in S THEN n
    ELSE IF StepFrom(S) = S THEN -1
    ELSE StepsBetween(StepFrom(S), goal, n + 1)

Distance(from, to) == StepsBetween({from}, to, 0)

\* The hexes the index lists an army at.
ListedAt(a) == KeysOf(army_hex_map, a)

\* C17: a move order whose destination is the hex the army stands on, or
\* that no route over passable provinces leads to, or whose army the index
\* does not list, changes nothing: no position, no pending path, no index
\* entry.
VoidOrderChangesNothing ==
    [][\A event \in MoveArmyEvents :
          (/\ move_army_event(event)
           /\ \/ ListedAt(event.army) = {}
              \/ \E from_pos \in ListedAt(event.army) :
                    from_pos = event.to \/ Distance(from_pos, event.to) = -1)
          => UNCHANGED <<army, army_hex_map, battle>>]_vars

\* An order has left every army without a path, on a map where one army is
\* not listed and the listed one, away from where it started, has no route
\* to some passable province.
OrderWithoutEffect ==
    /\ last.op = "order"
    /\ \A a \in DOMAIN army : army[a].path = <<>>
    /\ \E a \in DOMAIN army : ListedAt(a) = {}
    /\ \E a \in DOMAIN army :
          /\ HexOf(1) \notin ListedAt(a)
          /\ \E from_pos \in ListedAt(a), to \in PassableHexes : Distance(from_pos, to) = -1

\* C20: a move order from s to another hex d that a route leads to leaves
\* on the army, in place of any path it had, a shortest path over passable
\* provinces: the path does not contain s, ends at d, starts at a neighbour
\* of s, goes from neighbour to neighbour over passable provinces only, and
\* has as many hexes as d is steps away from s.
OrderStoresShortestPath ==
    [][\A event \in MoveArmyEvents :
          move_army_event(event)
          => \A s \in ListedAt(event.army) :
               (s # event.to /\ Distance(s, event.to) > 0)
               => LET path == army'[event.army].path
                  IN /\ path # <<>>
                     /\ s \notin Range(path)
                     /\ path[Len(path)] = event.to
                     /\ Adjacent(s, path[1])
                     /\ \A i \in 1..(Len(path) - 1) : Adjacent(path[i], path[i + 1])
                     /\ Range(path) \subseteq PassableHexes
                     /\ Len(path) = Distance(s, event.to)]_vars

\* An order has stored a path of three steps on an army that has sea next
\* to it.
PathAroundSea ==
    /\ last.op = "order"
    /\ \E a \in DOMAIN army :
          /\ Len(army[a].path) = 3
          /\ \E s \in ListedAt(a) : Adjacent(s, army[a].path[1])
          /\ \E h \in Hexes \ PassableHexes : Adjacent(army[a].pos, h)

\* The save file of the last load has a war between the two countries.
SavedWarBetween(x, y) ==
    \E i \in DOMAIN last.save_data.wars :
        LET w == last.save_data.wars[i]
        IN \/ w.attacker = x /\ w.defender = y
           \/ w.attacker = y /\ w.defender = x

\* C18: after a load the relations of a country X contain Y exactly when
\* the save file has a war between X and Y, and the list of active wars
\* holds exactly one War for each war of the file.
LoadRebuildsWarIndices ==
    last.op = "load" =>
        /\ \A x, y \in Countries : are_at_war(x, y) <=> SavedWarBetween(x, y)
        /\ Len(active_wars) = Len(last.save_data.wars)
        /\ \A i \in DOMAIN active_wars :
              /\ active_wars[i] \in DOMAIN war
              /\ war[active_wars[i]] = last.save_data.wars[i]
        /\ \A i, j \in DOMAIN active_wars : active_wars[i] = active_wars[j] => i = j

\* C19: the distance from a hex to a hex is the distance back, the distance
\* from a hex to itself is 0, and the distance is half the sum of the
\* absolute differences of the three cube coordinates x = q, z = r and
\* y = -q - r.
DistanceSymmetric ==
    last.op = "distance" =>
        LET dq == last.a[1] - last.b[1]
            dr == last.a[2] - last.b[2]
        IN /\ last.there = last.back
           /\ last.self = 0
           /\ 2 * last.there = abs(dq) + abs(dq + dr) + abs(dr)

\* The distance between two hexes two steps apart that differ in both axial
\* coordinates has been taken.
DistanceTaken ==
    /\ last.op = "distance"
    /\ last.a[1] # last.b[1] /\ last.a[2] # last.b[2]
    /\ last.there = 2

\* C21: in a movement step an army with a path changes position only in its
\* own iteration, and then to the head of its path, a neighbour of the hex it
\* stood on; when the head is a hex without an index entry the head is
\* popped, the entry of the old hex is removed, the new hex maps to the army
\* and, when the path is empty then, the removal of the path is queued.
MovesOneHexAlongPath ==
    \A r \in MoveSteps :
        LET e == r.army
            old == r.before.army[e]
            new == r.after.army[e]
            next_hex == Head(old.path)
        IN /\ \A x \in DOMAIN r.before.army \ {e} :
                 r.after.army[x].pos = r.before.army[x].pos
           /\ new.pos # old.pos
                 => new.pos = next_hex /\ Adjacent(old.pos, next_hex)
           /\ (next_hex \notin DOMAIN r.before.map /\ new.pos # old.pos
                 /\ r.after.battle = r.before.battle)
                 => /\ new.path = Tail(old.path)
                    /\ old.pos \notin DOMAIN r.after.map
                    /\ r.after.map[next_hex] = e
                    /\ (new.path = <<>>)
                          <=> (r.cmds = <<[op |-> "remove_path", army |-> e]>>)
                    /\ new.path = <<>> /\ e \in DOMAIN army => army[e].path = <<>>

\* The battles an iteration found at the next hex of its mover's path.
BattlesAhead(r) ==
    {b \in DOMAIN r.before.battle :
        /\ r.before.army[r.army].path # <<>>
        /\ r.before.battle[b].location = Head(r.before.army[r.army].path)
        /\ \E a \in Range(r.before.battle[b].attackers)
                      \cup Range(r.before.battle[b].defenders) :
               a \in DOMAIN r.before.army}

\* C22: an army whose next hex is the location of an active battle (one
\* with a living army in its lists) is appended to the attackers when its
\* owner is the attacker country or at war with the defender country, and
\* otherwise to the defenders when its owner is the defender country or at
\* war with the attacker country; on joining its path is removed, it is
\* marked in-battle for the battle, its position is the battle hex, the index
\* entry of its old hex is removed and no entry lists it.  An army of an
\* owner neutral to both is added to neither list, keeps its position and
\* has its path removed.
JoinsBattleBySide ==
    \A r \in MoveSteps : \A b \in BattlesAhead(r) :
        LET e == r.army
            old == r.before.army[e]
            was == r.before.battle[b]
            now == r.after.battle[b]
            with_attackers == \/ old.owner = was.attacker_country
                              \/ are_at_war(old.owner, was.defender_country)
            with_defenders == /\ ~with_attackers
                              /\ \/ old.owner = was.defender_country
                                 \/ are_at_war(old.owner, was.attacker_country)
        IN /\ with_attackers => /\ now.attackers = Append(was.attackers, e)
                                /\ now.defenders = was.defenders
           /\ with_defenders => /\ now.defenders = Append(was.defenders, e)
                                /\ now.attackers = was.attackers
           /\ (with_attackers \/ with_defenders)
                 => /\ r.cmds = <<[op |-> "remove_path", army |-> e],
                                  [op |-> "insert_in_battle", army |-> e, battle |-> b]>>
                    /\ r.after.army[e].pos = was.location
                    /\ old.pos \notin DOMAIN r.after.map
                    /\ KeysOf(r.after.map, e) = {}
                    /\ e \in DOMAIN army
                    /\ army[e].path = <<>> /\ army[e].in_battle = b
           /\ ~(with_attackers \/ with_defenders)
                 => /\ now = was
                    /\ r.after.army[e].pos = old.pos
                    /\ [op |-> "remove_path", army |-> e] \in Range(r.cmds)
                    /\ army[e].path = <<>> /\ army[e].pos = old.pos

\* The armies an iteration consumed: the army it merged away, and the
\* attacker and the defender of the battle it created.
ConsumedBy(r) ==
    {c.army : c \in {d \in Range(r.cmds) : d.op = "despawn_army"}}
    \cup UNION {Range(c.battle.attackers) \cup Range(c.battle.defenders) :
                c \in {d \in Range(r.cmds) : d.op = "spawn_battle"}}

\* The battles that list the army on one of their sides.
BattlesOf(a) ==
    {b \in DOMAIN battle : a \in Range(battle[b].attackers) \cup Range(battle[b].defenders)}

\* C23: an army consumed by a collision of a movement pass (merged away, or
\* made attacker or defender of a battle the pass created) takes part in no
\* later collision of the pass: a later iteration does not move it, and does
\* not merge another army into it or start another battle with it; and no
\* army is listed by two battles.
ConsumedArmiesAreLeftAlone ==
    /\ last.op = "move" =>
          \A i \in 1..Len(last.steps) : \A j \in (i + 1)..Len(last.steps) :
              LET used == ConsumedBy(last.steps[i])
                  r == last.steps[j]
              IN /\ r.army \in used
                    => /\ r.after = r.before
                       /\ \A c \in Range(r.cmds) : c.op = "remove_path"
                 /\ EncounteredArmy(r) \in used
                    => \A c \in Range(r.cmds) : c.op = "remove_path"
    /\ \A a \in DOMAIN army : Cardinality(BattlesOf(a)) <= 1

\* The number of entries of a list that name the army.
Listings(army_list, a) == Cardinality({i \in DOMAIN army_list : army_list[i] = a})

\* C25 as stated: of a damage split over the entries of a side's list, with
\* share d = damage div number of entries, every army the list names loses
\* d div 20 units, or min(d, 5) units when that is 0 and d > 0, for each
\* entry that names it, capped at its size; an army not named loses nothing.
LossesByShare ==
    last.op = "side" =>
        LET d == last.damage \div Len(last.army_list)
        IN \A a \in DOMAIN army :
              total_size(last.before[a]) - total_size(army[a])
                 = MinOf(total_size(last.before[a]),
                         Listings(last.army_list, a) * Casualties(d))

\* C25, amended: the share is d = max(1, damage div number of entries); for
\* each entry of its side's list that names it an army loses d div 20 units,
\* or min(d, 5) units when that is 0, capped at its size; an army not named
\* loses nothing, and the remainder of the division inflicts no casualties.
LossesByShareAtLeastOne ==
    last.op = "side" =>
        LET share == last.damage \div Len(last.army_list)
            d == IF share < 1 THEN 1 ELSE share
        IN \A a \in DOMAIN army :
              total_size(last.before[a]) - total_size(army[a])
                 = MinOf(total_size(last.before[a]),
                         Listings(last.army_list, a) * Casualties(d))

\* Two armies of two units share a damage of 1: the division leaves a share
\* of 0, which is raised to 1, and either army loses one unit.
ShareRaisedToOne ==
    /\ last.op = "side"
    /\ last.army_list = <<1, 2>>
    /\ last.damage = 1
    /\ \A a \in 1..2 : total_size(last.before[a]) = 2 /\ total_size(army[a]) = 1

\* C24: every battle ends.  With resolve_battles run again and again, every
\* round strictly reduces the total size of either side, and a battle that
\* exists is eventually removed.
EveryBattleEnds ==
    /\ [](last.op = "resolve" =>
             \A i \in DOMAIN last.log :
                 last.log[i].result = "round" =>
                     /\ last.log[i].attackers_after < last.log[i].attackers_before
                     /\ last.log[i].defenders_after < last.log[i].defenders_before)
    /\ \A b \in BattleIds : (b \in DOMAIN battle) ~> (b \notin DOMAIN battle)

\* A resolution pass has removed the last battle after a round that left no
\* army alive on either side.
LastBattleRemoved ==
    /\ last.op = "resolve"
    /\ \E i \in DOMAIN last.log : last.log[i].result = "mutual_destruction"
    /\ DOMAIN battle = {}

\* The armies of a list that exist with a unit left.
AliveOf(army_list) ==
    {a \in Range(army_list) : a \in DOMAIN army /\ total_size(army[a]) > 0}

\* C26: a resolution pass that finds exactly one side of a battle without a
\* living army removes the battle; after it every army of the surviving side
\* exists without in-battle marker at the battle hex, the index maps the
\* battle hex to one of them and lists no other army of the battle, and no
\* army of the losing side exists or is listed.
OneSidedBattleEnds ==
    [][last'.op = "resolve" =>
          \A b \in DOMAIN battle :
              LET winners == AliveOf(battle[b].attackers) \cup AliveOf(battle[b].defenders)
                  losers == IF AliveOf(battle[b].attackers) = {}
                            THEN Range(battle[b].attackers)
                            ELSE Range(battle[b].defenders)
                  location == battle[b].location
              IN (AliveOf(battle[b].attackers) = {}) # (AliveOf(battle[b].defenders) = {})
                    => /\ b \notin DOMAIN battle'
                       /\ \A a \in winners :
                             /\ a \in DOMAIN army'
                             /\ army'[a].in_battle = 0
                             /\ army'[a].pos = location
                       /\ location \in DOMAIN army_hex_map'
                       /\ army_hex_map'[location] \in winners
                       /\ \A a \in (Range(battle[b].attackers)
                                      \cup Range(battle[b].defenders))
                                    \ {army_hex_map'[location]} :
                             KeysOf(army_hex_map', a) = {}
                       /\ \A a \in losers :
                             a \notin DOMAIN army' /\ KeysOf(army_hex_map', a) = {}]_vars

\* The army stands on the province and fights in no battle at its hex.
RestsOn(a, p) ==
    /\ get_entity(army[a].pos) = p
    /\ \A b \in DOMAIN battle :
          battle[b].location = army[a].pos
             => /\ army[a].in_battle # b
                /\ a \notin Range(battle[b].attackers) \cup Range(battle[b].defenders)

\* C27: a siege pass creates a siege record on a province only if the
\* province has an owner, is not occupied and not under siege, and an army of
\* a country at war with the owner rests on its hex, fighting in no battle
\* there; the record names that army's country with progress 1.
SiegeStartsWithRestingEnemy ==
    [][last'.op = "siege" =>
          \A p \in DOMAIN siege :
              (siege[p] = NoSiege /\ siege'[p] # NoSiege)
                 => /\ owner[p] # NoEntity
                    /\ occupied[p] = NoEntity
                    /\ \E a \in DOMAIN army :
                          /\ RestsOn(a, p)
                          /\ are_at_war(army[a].owner, owner[p])
                          /\ siege'[p] = [besieger_country |-> army[a].owner,
                                          progress |-> 1]]_vars

\* The messages of the queue that name no live offer, and those that name an
\* offer whose war is gone.
AcceptancesWithoutOffer ==
    {e \in Range(accept_peace_events) : e \notin DOMAIN offer}

AcceptancesWithoutWar ==
    {e \in Range(accept_peace_events) :
        e \in DOMAIN offer /\ offer[e].war_entity \notin DOMAIN war}

\* C29: a run of handle_accept_peace over messages that name no live offer
\* or an offer whose war is gone changes no province owner, occupation
\* marker, siege, war relation, war or active-wars entry; it destroys the
\* offers whose war is gone and no other, so that a message without a live
\* offer changes nothing.
StaleAcceptanceChangesNoWar ==
    [][(/\ last'.op = "accept"
        /\ Range(accept_peace_events) =
              AcceptancesWithoutOffer \cup AcceptancesWithoutWar)
          => /\ UNCHANGED <<warVars, provVars, player, terrain, armyVars>>
             /\ DOMAIN offer' = DOMAIN offer \ AcceptancesWithoutWar
             /\ \A o \in DOMAIN offer' : offer'[o] = offer[o]]_vars

\* The offer of a war that a load has replaced was accepted: the offer is
\* gone, the occupation marker of the province and the loaded war are still
\* there.
AcceptedAfterWarVanished ==
    /\ last.op = "accept"
    /\ last.log = <<[offer_entity |-> 1, result |-> "no_war"]>>
    /\ offer = <<>>
    /\ occupied[1] = "c2"
    /\ active_wars # <<>>

\* C30: an offer to a country other than the player's is evaluated by the AI
\* in one pass only (no offer the AI evaluates in a pass has an acceptance of
\* an earlier pass unread), its terms are executed at most once (no run of
\* handle_accept_peace accepts the same offer twice), and the offers the AI
\* rejected and those whose acceptance was processed are gone when the pass
\* ends, whichever of the two systems runs first.
OfferIsTransient ==
    last.op = "update" =>
        /\ (last.accepted \cup last.rejected) \cap Range(last.unread) = {}
        /\ \A i, j \in DOMAIN last.log :
              (/\ i # j
               /\ last.log[i].offer_entity = last.log[j].offer_entity)
                  => ~(last.log[i].result = "accepted" /\ last.log[j].result = "accepted")
        /\ \A o \in last.rejected : o \notin DOMAIN offer
        /\ \A i \in DOMAIN last.log :
              last.log[i].result \in {"accepted", "no_war"}
                  => last.log[i].offer_entity \notin DOMAIN offer
\* C31: a move order, a movement step, a siege pass (one that completes a
\* siege into an occupation included) and a pass of resolve_battles that
\* only fights rounds or ends battles by mutual destruction leave the owner
\* of every province unchanged.
EngineKeepsOwners ==
    [][(\/ last'.op \in {"order", "move", "siege"}
        \/ /\ last'.op = "resolve"
           /\ \A i \in DOMAIN last'.log :
                 last'.log[i].result \in {"round", "mutual_destruction"})
          => owner' = owner]_vars

\* A siege pass has turned the siege of province 2 into an occupation by
\* c1: the province still belongs to c2.
SiegeCompletedUnderOldOwner ==
    /\ last.op = "siege"
    /\ \E i \in DOMAIN last.log :
          last.log[i] = [province |-> 2, event |-> "occupied"]
    /\ occupied[2] = "c1"
    /\ owner[2] = "c2"
\* C32: a battle round raises the round counter of its battle by exactly 1
\* and records, for each side, the units the armies of that side lost in the
\* round: the sizes of its armies before the round less their sizes after it.
RoundRecordsCasualties ==
    [][last'.op = "resolve" =>
          \A i \in DOMAIN last'.log :
              LET r == last'.log[i]
              IN r.result = "round" =>
                   /\ r.battle \in DOMAIN battle /\ r.battle \in DOMAIN battle'
                   /\ battle'[r.battle].round = battle[r.battle].round + 1
                   /\ battle'[r.battle].last_damage_attacker =
                         r.attackers_before - r.attackers_after
                   /\ battle'[r.battle].last_damage_defender =
                         r.defenders_before - r.defenders_after]_vars

\* A second round has been fought in which the attackers lost one unit and
\* the defenders none.
SecondRoundWithLosses ==
    /\ last.op = "resolve"
    /\ \E i \in DOMAIN last.log :
          /\ last.log[i].result = "round"
          /\ battle[last.log[i].battle].round = 2
          /\ battle[last.log[i].battle].last_damage_attacker = 1
          /\ last.log[i].attackers_before = last.log[i].attackers_after + 1
\* C33: an army that carries an in-battle marker has no pending path, and
\* neither a move order nor a movement step changes the position of an army
\* that carried the marker before it: the army stays where it is, without a
\* path, until resolve_battles has dealt with its battle.
InBattleArmiesStay ==
    [][/\ \A a \in DOMAIN army' :
             army'[a].in_battle # 0 => army'[a].path = <<>>
       /\ last'.op \in {"order", "move"} =>
             \A a \in DOMAIN army \cap DOMAIN army' :
                 army[a].in_battle # 0 => army'[a].pos = army[a].pos]_vars
\* C34: a live army carries the in-battle marker of battle b if and only if
\* b is a battle that exists and lists the army among its attackers or its
\* defenders.
MarkerMatchesBattleLists ==
    \A a \in DOMAIN army :
        /\ army[a].in_battle \in {0} \cup DOMAIN battle
        /\ \A b \in DOMAIN battle :
              army[a].in_battle = b
                 <=> a \in Range(battle[b].attackers) \cup Range(battle[b].defenders)
\* C35: in every battle no army is listed twice: the attacker list and the
\* defender list have no army in common and neither names an army twice.
BattleListsNameArmiesOnce ==
    \A b \in DOMAIN battle :
        /\ Range(battle[b].attackers) \cap Range(battle[b].defenders) = {}
        /\ Cardinality(Range(battle[b].attackers)) = Len(battle[b].attackers)
        /\ Cardinality(Range(battle[b].defenders)) = Len(battle[b].defenders)
\* C36: no army is listed on the side of a country its owner is at war
\* with: the owner of an army of the attacker list is not at war with the
\* attacker country, the owner of an army of the defender list is not at
\* war with the defender country.
NoArmyFightsForItsEnemy ==
    \A b \in DOMAIN battle :
        /\ \A a \in Range(battle[b].attackers) \cap DOMAIN army :
              ~are_at_war(army[a].owner, battle[b].attacker_country)
        /\ \A a \in Range(battle[b].defenders) \cap DOMAIN army :
              ~are_at_war(army[a].owner, battle[b].defender_country)
\* C37: after every step each entry of the army index names a live army
\* that stands on the hex of the entry, and no army is entered under two
\* hexes; a step takes away or overwrites the entry of no army that is
\* still alive after it and has not changed its position.
IndexFollowsArmies ==
    [][/\ \A h \in DOMAIN army_hex_map' :
             /\ army_hex_map'[h] \in DOMAIN army'
             /\ army'[army_hex_map'[h]].pos = h
       /\ \A a \in DOMAIN army' : Cardinality(KeysOf(army_hex_map', a)) <= 1
       /\ \A h \in DOMAIN army_hex_map :
             LET a == army_hex_map[h]
             IN (/\ a \in DOMAIN army /\ a \in DOMAIN army'
                 /\ army'[a].pos = army[a].pos)
                    => (h \in DOMAIN army_hex_map' /\ army_hex_map'[h] = a)]_vars
\* C38: the acceptance of a peace between X and Y leaves the owner of every
\* province the offer does not list as it is, and leaves as it is the
\* occupation marker of every such province that a third country owns or a
\* third country holds.
PeaceTouchesTheTwoOnly ==
    [][last'.op = "accept" =>
        \A e \in Range(accept_peace_events) :
            (e \in DOMAIN offer /\ offer[e].war_entity \in DOMAIN war) =>
                LET o == offer[e]
                    X == o.from
                    Y == o.to
                IN \A p \in Provs \ o.provinces_to_cede :
                      /\ owner'[p] = owner[p]
                      /\ (owner[p] \notin {X, Y} \/ occupied[p] \notin {X, Y})
                            => occupied'[p] = occupied[p]]_vars
\* C39: every province that carries an occupation marker has an owner, and
\* the occupier is at war with that owner.
OccupierIsAtWarWithOwner ==
    \A p \in Provs :
        occupied[p] # NoEntity =>
            /\ owner[p] # NoEntity
            /\ are_at_war(occupied[p], owner[p])
            /\ are_at_war(owner[p], occupied[p])

\* C40: a siege pass does nothing for a siege whose besieger is not at war
\* with the owner of the province, as after the peace of the two: the
\* progress of the siege does not rise and the province does not become
\* occupied.
NoSiegeProgressInPeace ==
    [][last'.op = "siege" =>
          \A p \in Provs :
              (/\ siege[p] # NoSiege
               /\ owner[p] # NoEntity
               /\ ~are_at_war(siege[p].besieger_country, owner[p]))
                  => /\ occupied'[p] = occupied[p]
                     /\ siege'[p] = NoSiege \/ siege'[p].progress <= siege[p].progress]_vars
====
